---------------------------- MODULE Spec2Model ----------------------------
(***************************************************************************)
(* Model of the construction tagging engine of the Caesar pipeline         *)
(* (server/scripts/caesar_pipeline/tag_constructions.py) and of the tag    *)
(* validator of review_constructions.py.                                   *)
(*                                                                         *)
(* Conventions.                                                            *)
(*  - A Python string that the code splits or searches (a feature string  *)
(*    "Case=Abl|Number=Sing") is a sequence of atoms: <<"Case","=","Abl",  *)
(*    "|","Number","=","Sing">>.  "=" and "|" are the separator atoms;     *)
(*    every other atom stands for a run of characters holding neither.     *)
(*  - Python's None is NoneVal where a string is expected, NoIdx (-1)      *)
(*    where a token index is expected and "None" for a name.               *)
(*  - Token indices are the code's 0-based indices; the token at index i  *)
(*    of the sentence is tokens[i + 1].                                    *)
(***************************************************************************)
EXTENDS Integers, Sequences, FiniteSets, TLC

VARIABLES
    tokens,     \* the sentence being tagged: a sequence of token records
    tags,       \* the tag list built so far by the sentence driver
    pc,         \* position of the driver / of the function under test
    bag,        \* feature accessor: the feature bag passed to feats_get
    key,        \* feature accessor: the key passed to feats_get
    got,        \* feature accessor: what feats_get returned (or Raised)
    once,       \* deduplicator: dedup_tags(tags)
    twice,      \* deduplicator: dedup_tags(once)
    pair,       \* classifier: two sentences <<protasis verb, apodosis verb, ...>>
    discourse,  \* classifier: the discourse value passed with both
    labels,     \* classifier: the labels classify_conditional returned
    ran,        \* free-order driver: the detectors that have run
    arg,        \* function under test: its arguments besides the sentence
    ret         \* function under test: what it returned

vars == <<tokens, tags, pc, bag, key, got, once, twice, pair, discourse, labels,
          ran, arg, ret>>

featVars  == <<bag, key, got>>
dedupVars == <<once, twice>>
classVars == <<pair, discourse, labels>>
orderVars == <<ran>>
callVars  == <<arg, ret>>

\* The variables of the functions that are not under test keep these values.
IdleFeats  == bag = [rep |-> "none", body |-> <<>>] /\ key = <<>> /\ got = <<>>
IdleDedup  == once = <<>> /\ twice = <<>>
IdleClass  == pair = <<>> /\ discourse = "direct" /\ labels = <<>>
IdleDriver == tokens = <<>> /\ tags = <<>>
IdleOrder  == ran = {}
IdleCall   == arg = <<>> /\ ret = <<>>

(***************************************************************************)
(* Bounds of the model.                                                    *)
(***************************************************************************)
MaxStrLen == 5      \* longest feature string (in atoms) given to feats_get
MaxKeyLen == 2      \* longest key (in atoms) given to feats_get

(***************************************************************************)
(* Python values.                                                          *)
(***************************************************************************)
NoneVal == <<"<None>">>
Raised  == <<"<raised>">>
NoIdx   == 0 - 1

S(a) == <<a>>

\* Python truthiness of a string-or-None value: None and "" are falsy.
Truthy(v) == v # NoneVal /\ v # <<>>

(***************************************************************************)
(* Feature bags.  rep is the JSON type of the value: "str", "dict",        *)
(* "none" (null) or "list" (any other type).  body is the string's atoms,  *)
(* the dictionary's <<key, value>> items, or the list's elements.          *)
(***************************************************************************)
StrBag(s)   == [rep |-> "str",  body |-> s]
DictBag(kv) == [rep |-> "dict", body |-> kv]
NoneBag     == [rep |-> "none", body |-> <<>>]
ListBag(l)  == [rep |-> "list", body |-> l]
EmptyStr    == StrBag(<<>>)

\* `not feats`: None, "", {} and [] are falsy.
Falsy(b) == b.rep = "none" \/ b.body = <<>>

\* `tok.get("feats") or ""`
OrEmpty(b) == IF Falsy(b) THEN EmptyStr ELSE b

\* s.split(sep): the parts of s between the separator atoms.
RECURSIVE Split(_, _)
Split(s, sep) ==
    IF \A i \in 1..Len(s) : s[i] # sep
    THEN <<s>>
    ELSE LET i == CHOOSE j \in 1..Len(s) :
                      s[j] = sep /\ \A k \in 1..(j - 1) : s[k] # sep
         IN  <<SubSeq(s, 1, i - 1)>> \o Split(SubSeq(s, i + 1, Len(s)), sep)

\* part.split("=", 1): at most one split, at the first "=".
SplitOnce(s, sep) ==
    IF \A i \in 1..Len(s) : s[i] # sep
    THEN <<s>>
    ELSE LET i == CHOOSE j \in 1..Len(s) :
                      s[j] = sep /\ \A k \in 1..(j - 1) : s[k] # sep
         IN  <<SubSeq(s, 1, i - 1), SubSeq(s, i + 1, Len(s))>>

\* dict.get(key): the value stored under key, None when there is none.
DictGet(kv, k) ==
    IF \E i \in 1..Len(kv) : kv[i][1] = k
    THEN kv[CHOOSE i \in 1..Len(kv) : kv[i][1] = k][2]
    ELSE NoneVal

\* The loop of feats_get over feats.split("|"), without the guard on "=":
\* `k, v = part.split("=", 1)` raises ValueError on a part holding no "=".
RECURSIVE ScanPartsNoGuard(_, _)
ScanPartsNoGuard(parts, k) ==
    IF parts = <<>> THEN NoneVal
    ELSE LET kvp == SplitOnce(Head(parts), "=")
         IN  IF Len(kvp) # 2 THEN Raised
             ELSE IF kvp[1] = k THEN kvp[2]
             ELSE ScanPartsNoGuard(Tail(parts), k)

\* The loop of feats_get over feats.split("|").
RECURSIVE ScanParts(_, _)
ScanParts(parts, k) ==
    IF parts = <<>> THEN NoneVal
    ELSE LET part == Head(parts)
         IN  IF \A i \in 1..Len(part) : part[i] # "="
             THEN ScanParts(Tail(parts), k)
             ELSE LET kvp == SplitOnce(part, "=")
                  IN  IF Len(kvp) # 2 THEN Raised
                      ELSE IF kvp[1] = k THEN kvp[2]
                      ELSE ScanParts(Tail(parts), k)

feats_get_noguard(feats, k) ==
    IF Falsy(feats) THEN NoneVal
    ELSE IF feats.rep = "dict" THEN DictGet(feats.body, k)
    ELSE IF feats.rep # "str" THEN NoneVal
    ELSE ScanPartsNoGuard(Split(feats.body, "|"), k)

feats_get(feats, k) ==
    IF Falsy(feats) THEN NoneVal
    ELSE IF feats.rep = "dict" THEN DictGet(feats.body, k)
    ELSE IF feats.rep # "str" THEN NoneVal
    ELSE ScanParts(Split(feats.body, "|"), k)

feats_has(feats, k, v) == feats_get(feats, k) = v

\* get_feat is a second copy of feats_get, used by the ablative absolute.
get_feat(feats, k) ==
    IF Falsy(feats) THEN NoneVal
    ELSE IF feats.rep = "dict" THEN DictGet(feats.body, k)
    ELSE IF feats.rep # "str" THEN NoneVal
    ELSE ScanParts(Split(feats.body, "|"), k)

(***************************************************************************)
(* The feature accessor under test: Init draws the bag and the key from    *)
(* bounded sets, CallFeatsGet applies feats_get.                           *)
(***************************************************************************)
FeatAtoms == {"a", "b", "=", "|"}
KeyAtoms  == {"a", "b", "="}

SeqsUpTo(A, n) == UNION {[1..m -> A] : m \in 0..n}

FeatDictItems == { <<k, v>> : k \in {S("a"), S("b")}, v \in {S("a"), <<>>, NoneVal} }

FeatBags ==
    {NoneBag}
    \cup {StrBag(s) : s \in SeqsUpTo(FeatAtoms, MaxStrLen)}
    \cup {DictBag(<<>>)}
    \cup {DictBag(<<i>>) : i \in FeatDictItems}
    \cup {DictBag(p) : p \in {q \in [1..2 -> FeatDictItems] : q[1][1] # q[2][1]}}
    \cup {ListBag(<<>>), ListBag(<<S("a")>>)}

FeatKeys == SeqsUpTo(KeyAtoms, MaxKeyLen)

InitFeats ==
    /\ bag \in FeatBags
    /\ key \in FeatKeys
    /\ got = <<>>
    /\ pc = "call"
    /\ IdleDriver /\ IdleDedup /\ IdleClass /\ IdleOrder /\ IdleCall

CallFeatsGet ==
    /\ pc = "call"
    /\ got' = feats_get(bag, key)
    /\ pc' = "returned"
    /\ UNCHANGED <<tokens, tags, bag, key, dedupVars, classVars, orderVars, callVars>>

NextFeats == CallFeatsGet

SpecFeats == InitFeats /\ [][NextFeats]_vars

(***************************************************************************)
(* Tokens.  A token is a record                                            *)
(*   [text, lemma, upos, feats, head, head_int, deprel];                   *)
(* head_int says whether the JSON value of "head" is an integer.  text and *)
(* lemma are atoms; Lower is str.lower() on the atoms of the model (strip  *)
(* leaves an atom, which holds no blank, as it is).                        *)
(***************************************************************************)
Tok(toks, i) == toks[i + 1]

Lower(a) ==
    CASE a = "Cum" -> "cum"
      [] a = "Si"  -> "si"
      [] a = "Ut"  -> "ut"
      [] a = "Ad"  -> "ad"
      [] OTHER     -> a

tok_text(tok)  == tok.text
tok_lemma(tok) == tok.lemma

is_punct(tok) == tok.upos = "PUNCT" \/ tok.deprel = "punct"

Min2(a, b) == IF a <= b THEN a ELSE b
Max2(a, b) == IF a >= b THEN a ELSE b
SetMin(A) == CHOOSE x \in A : \A y \in A : x <= y
SetMax(A) == CHOOSE x \in A : \A y \in A : x >= y
Abs(x) == IF x < 0 THEN 0 - x ELSE x

(***************************************************************************)
(* Boundary model.                                                         *)
(***************************************************************************)
STRONG_PUNCT       == {".", ";", ":", "?", "!"}
SENTENCE_END_PUNCT == {".", "?", "!"}

\* A mutant of is_strong_boundary: only the full stop is a boundary.
is_strong_boundary_stop(tok) ==
    tok.upos = "PUNCT" /\ tok_text(tok) = "."

is_strong_boundary(tok) ==
    tok.upos = "PUNCT" /\ tok_text(tok) \in STRONG_PUNCT

\* A mutant of has_strong_boundary_between: the scan starts one token late.
has_strong_boundary_between_late(toks, a, b) ==
    LET lo == Min2(a, b)
        hi == Max2(a, b)
    IN  \E k \in (lo + 2)..(hi - 1) : is_strong_boundary(Tok(toks, k))

has_strong_boundary_between(toks, a, b) ==
    LET lo == Min2(a, b)
        hi == Max2(a, b)
    IN  \E k \in (lo + 1)..(hi - 1) : is_strong_boundary(Tok(toks, k))

RECURSIVE seg_left(_, _)
seg_left(toks, left) ==
    IF left > 0 /\ ~is_strong_boundary(Tok(toks, left - 1))
    THEN seg_left(toks, left - 1) ELSE left

RECURSIVE seg_right(_, _)
seg_right(toks, right) ==
    IF right < Len(toks) - 1 /\ ~is_strong_boundary(Tok(toks, right + 1))
    THEN seg_right(toks, right + 1) ELSE right

segment_bounds(toks, i) == <<seg_left(toks, i), seg_right(toks, i)>>

is_sentence_end_boundary(tok) ==
    tok.upos = "PUNCT" /\ tok_text(tok) \in SENTENCE_END_PUNCT

RECURSIVE sent_left(_, _)
sent_left(toks, left) ==
    IF left > 0 /\ ~is_sentence_end_boundary(Tok(toks, left - 1))
    THEN sent_left(toks, left - 1) ELSE left

RECURSIVE sent_right(_, _)
sent_right(toks, right) ==
    IF right < Len(toks) - 1 /\ ~is_sentence_end_boundary(Tok(toks, right + 1))
    THEN sent_right(toks, right + 1) ELSE right

sentence_bounds(toks, i) == <<sent_left(toks, i), sent_right(toks, i)>>

(***************************************************************************)
(* Token predicates and the tree index.                                    *)
(***************************************************************************)
is_nounish(tok) == tok.upos \in {"NOUN", "PROPN", "PRON"}

is_finite_verb(tok) ==
    /\ tok.upos \in {"VERB", "AUX"}
    /\ feats_get(OrEmpty(tok.feats), S("VerbForm")) \in {NoneVal, S("Fin")}

is_infinitive(tok) == feats_has(OrEmpty(tok.feats), S("VerbForm"), S("Inf"))

agree_gender_number(a, b) ==
    LET fa == OrEmpty(a.feats)
        fb == OrEmpty(b.feats)
        ga == feats_get(fa, S("Gender"))
        gb == feats_get(fb, S("Gender"))
        na == feats_get(fa, S("Number"))
        nb == feats_get(fb, S("Number"))
    IN  /\ ~(Truthy(ga) /\ Truthy(gb) /\ ga # gb)
        /\ ~(Truthy(na) /\ Truthy(nb) /\ na # nb)

\* A mutant of HasHead: the head is not required to be an integer.
HasHead_untyped(toks, tok) ==
    tok.head > 0 /\ tok.head - 1 < Len(toks)

\* `isinstance(head, int) and head > 0` followed by `0 <= head - 1 < n`:
\* the token has a head inside the sentence.
HasHead(toks, tok) ==
    tok.head_int /\ tok.head > 0 /\ tok.head - 1 < Len(toks)

Indices(toks) == [i \in 1..Len(toks) |-> i - 1]

\* children[h]: the tokens whose head is h, in sentence order.
ChildrenOf(toks, h) ==
    SelectSeq(Indices(toks),
              LAMBDA i : HasHead(toks, Tok(toks, i)) /\ Tok(toks, i).head - 1 = h)

build_children(toks) == [h \in 0..(Len(toks) - 1) |-> ChildrenOf(toks, h)]

SeqToSet(q) == {q[i] : i \in 1..Len(q)}

\* The first element of the list q that satisfies P, NoIdx when there is none
\* (a `for ... if ...: found = x; break` loop).
FirstWhere(q, P(_)) ==
    IF \E i \in 1..Len(q) : P(q[i])
    THEN q[CHOOSE i \in 1..Len(q) : P(q[i]) /\ \A j \in 1..(i - 1) : ~P(q[j])]
    ELSE NoIdx

RECURSIVE dfs(_, _, _, _)
dfs(children, stack, seen, query_i) ==
    IF stack = <<>> THEN FALSE
    ELSE LET cur  == stack[Len(stack)]
             rest == SubSeq(stack, 1, Len(stack) - 1)
         IN  IF cur = query_i THEN TRUE
             ELSE IF cur \in seen THEN dfs(children, rest, seen, query_i)
             ELSE dfs(children,
                      rest \o (IF cur \in DOMAIN children THEN children[cur] ELSE <<>>),
                      seen \cup {cur}, query_i)

\* A mutant of in_subtree: only the root and its own children are looked at.
in_subtree_shallow(toks, children, root_i, query_i) ==
    \/ root_i = query_i
    \/ root_i \in DOMAIN children /\ query_i \in SeqToSet(children[root_i])

in_subtree(toks, children, root_i, query_i) ==
    dfs(children, <<root_i>>, {}, query_i)

RECURSIVE fnb(_, _, _)
fnb(toks, start_i, i) ==
    IF i >= Len(toks) THEN Len(toks) - 1
    ELSE IF is_punct(Tok(toks, i)) THEN Max2(start_i, i - 1)
    ELSE IF Tok(toks, i).deprel \in {"parataxis", "root"} /\ i # start_i THEN i - 1
    ELSE fnb(toks, start_i, i + 1)

find_next_boundary(toks, start_i) == fnb(toks, start_i, start_i)

(***************************************************************************)
(* Cum clauses.                                                            *)
(***************************************************************************)
\* The test of one token i in tag_cum_clauses.
cum_fires(toks, i) ==
    LET tok == Tok(toks, i)
    IN  /\ Lower(tok_lemma(tok)) = "cum"
        /\ tok.upos \in {"SCONJ", "ADP"}
        /\ tok.deprel \in {"mark", "case"}
        /\ HasHead(toks, tok)
        /\ ~has_strong_boundary_between(toks, i, tok.head - 1)
        /\ feats_has(OrEmpty(Tok(toks, tok.head - 1).feats), S("Mood"), S("Sub"))
        /\ is_finite_verb(Tok(toks, tok.head - 1))

cum_tag(toks, i) ==
    LET v_i  == Tok(toks, i).head - 1
        end0 == find_next_boundary(toks, v_i)
        end  == IF has_strong_boundary_between(toks, i, end0)
                THEN Min2(end0, segment_bounds(toks, v_i)[2])
                ELSE end0
    IN  [type |-> "cum_clause", start |-> i, end |-> end, confidence |-> 90,
         trigger |-> [cum_index |-> i, verb_index |-> v_i]]

\* The tags a detector emits, one optional tag per token, in token order.
Collect(toks, Fires(_, _), Emit(_, _)) ==
    LET idx == SelectSeq(Indices(toks), LAMBDA i : Fires(toks, i))
    IN  [k \in 1..Len(idx) |-> Emit(toks, idx[k])]

tag_cum_clauses(toks) == Collect(toks, cum_fires, cum_tag)

(***************************************************************************)
(* Ablative absolutes.                                                     *)
(***************************************************************************)
\* A mutant of abl_child_agrees: a missing Gender or Number counts as
\* agreement (the rule of agree_gender_number).
abl_child_agrees_lenient(part, c) ==
    /\ is_nounish(c) /\ feats_has(OrEmpty(c.feats), S("Case"), S("Abl"))
    /\ agree_gender_number(part, c)

\* The agreement test of one ablative noun-ish child c of the participle.
abl_child_agrees(part, c) ==
    LET feats   == OrEmpty(part.feats)
        c_feats == OrEmpty(c.feats)
        part_gender == get_feat(feats, S("Gender"))
        part_number == get_feat(feats, S("Number"))
        noun_gender == get_feat(c_feats, S("Gender"))
        noun_number == get_feat(c_feats, S("Number"))
    IN  /\ is_nounish(c) /\ feats_has(c_feats, S("Case"), S("Abl"))
        /\ Truthy(part_gender) /\ Truthy(part_number)
        /\ Truthy(noun_gender) /\ Truthy(noun_number)
        /\ part_gender = noun_gender
        /\ part_number = noun_number

abl_found_n(toks, i) ==
    FirstWhere(ChildrenOf(toks, i),
               LAMBDA ci : abl_child_agrees(Tok(toks, i), Tok(toks, ci)))

abl_fires(toks, i) ==
    LET tok   == Tok(toks, i)
        feats == OrEmpty(tok.feats)
    IN  /\ tok.upos = "VERB"
        /\ feats_has(feats, S("VerbForm"), S("Part"))
        /\ feats_has(feats, S("Case"), S("Abl"))
        /\ abl_found_n(toks, i) # NoIdx

abl_tag(toks, i) ==
    LET found_n == abl_found_n(toks, i)
    IN  [type |-> "abl_abs",
         start |-> Min2(i, found_n), end |-> Max2(i, found_n),
         highlight_spans |-> << <<i, i>>, <<found_n, found_n>> >>,
         confidence |-> 88,
         trigger |-> [part_index |-> i, abl_noun_index |-> found_n]]

tag_ablative_absolutes(toks) == Collect(toks, abl_fires, abl_tag)

(***************************************************************************)
(* Indirect statements (accusative + infinitive).                          *)
(***************************************************************************)
SPEECH_LEMMAS ==
    {"dico", "inquam", "aio", "nego", "respondeo", "puto", "existimo", "arbitror",
     "audio", "video", "cognosco", "intellego", "scio", "comperio", "nuntio"}

INDIRECT_HEAD_LEMMAS ==
    SPEECH_LEMMAS \cup
    {"impero", "iubeo", "mando", "praecipio", "cogo", "hortor", "moneo",
     "oro", "rogo", "peto", "postulo", "flagito", "posco", "suadeo", "persuadeo",
     "prohibeo", "veto",
     "nuntio", "renuntio", "refero", "denuntio",
     "intellego", "animadverto", "cognosco", "comperio", "rescio"}

ind_inf_i(toks, i) ==
    FirstWhere(ChildrenOf(toks, i),
               LAMBDA ci : Tok(toks, ci).upos \in {"VERB", "AUX"}
                           /\ is_infinitive(Tok(toks, ci)))

ind_best_acc(toks, inf_i) ==
    LET direct ==
            FirstWhere(ChildrenOf(toks, inf_i),
                LAMBDA ci : /\ is_nounish(Tok(toks, ci))
                            /\ feats_has(OrEmpty(Tok(toks, ci).feats), S("Case"), S("Acc"))
                            /\ Tok(toks, ci).deprel \in {"nsubj", "obj", "nsubj:pass"})
        children == build_children(toks)
    IN  IF direct # NoIdx THEN direct
        ELSE FirstWhere(Indices(toks),
                LAMBDA j : /\ in_subtree(toks, children, inf_i, j)
                           /\ is_nounish(Tok(toks, j))
                           /\ feats_has(OrEmpty(Tok(toks, j).feats), S("Case"), S("Acc")))

\* <<start, end>> of the tag, or <<>> when the clamped span is empty.
ind_span(toks, inf_i, best_acc) ==
    LET start0 == Min2(best_acc, inf_i)
        end0   == find_next_boundary(toks, Max2(best_acc, inf_i))
        seg    == segment_bounds(toks, inf_i)
    IN  IF has_strong_boundary_between(toks, start0, end0)
        THEN (IF Max2(start0, seg[1]) > Min2(end0, seg[2]) THEN <<>>
              ELSE <<Max2(start0, seg[1]), Min2(end0, seg[2])>>)
        ELSE <<start0, end0>>

ind_fires(toks, i) ==
    LET tok   == Tok(toks, i)
        inf_i == ind_inf_i(toks, i)
        acc   == ind_best_acc(toks, inf_i)
    IN  /\ tok.upos \in {"VERB", "AUX"}
        /\ Lower(tok_lemma(tok)) \in SPEECH_LEMMAS
        /\ inf_i # NoIdx
        /\ acc # NoIdx
        /\ ~has_strong_boundary_between(toks, acc, inf_i)
        /\ ind_span(toks, inf_i, acc) # <<>>

ind_tag(toks, i) ==
    LET inf_i == ind_inf_i(toks, i)
        acc   == ind_best_acc(toks, inf_i)
        span  == ind_span(toks, inf_i, acc)
        conf  == (IF Abs(acc - inf_i) <= 6 THEN 90 ELSE 85)
                 + (IF Tok(toks, acc).deprel = "nsubj" THEN 3 ELSE 0)
    IN  [type |-> "indirect_statement",
         start |-> span[1], end |-> span[2],
         highlight_spans |-> << <<acc, acc>>, <<inf_i, inf_i>> >>,
         full_span |-> span,
         confidence |-> conf,
         trigger |-> [speech_verb_index |-> i, inf_index |-> inf_i,
                      acc_subject_index |-> acc]]

tag_indirect_statements(toks) == Collect(toks, ind_fires, ind_tag)

(***************************************************************************)
(* Morphology readers and gerund / gerundive.                              *)
(***************************************************************************)
is_subjunctive(tok) == feats_has(tok.feats, S("Mood"), S("Sub"))
get_tense(tok)    == feats_get(OrEmpty(tok.feats), S("Tense"))
get_aspect(tok)   == feats_get(OrEmpty(tok.feats), S("Aspect"))
get_mood(tok)     == feats_get(OrEmpty(tok.feats), S("Mood"))
get_verbform(tok) == feats_get(OrEmpty(tok.feats), S("VerbForm"))

\* needle is a contiguous run of the atoms of s (Python's `needle in s`).
IsSubstring(needle, s) ==
    \E st \in 0..(Len(s) - Len(needle)) :
        \A k \in 1..Len(needle) : s[st + k] = needle[k]

\* Python's `needle in feats`: a substring test on a string, a key test on a
\* dictionary, an element test on a list.
PyIn(needle, feats) ==
    CASE feats.rep = "str"  -> IsSubstring(needle, feats.body)
      [] feats.rep = "dict" -> \E k \in 1..Len(feats.body) : feats.body[k][1] = needle
      [] feats.rep = "list" -> \E k \in 1..Len(feats.body) : feats.body[k] = needle
      [] OTHER              -> FALSE

is_future_passive_participle(tok) ==
    LET feats == OrEmpty(tok.feats)
    IN  /\ tok.upos \in {"VERB", "AUX"}
        /\ PyIn(<<"VerbForm", "=", "Part">>, feats)
        /\ PyIn(<<"Voice", "=", "Pass">>, feats)
        /\ PyIn(<<"Aspect", "=", "Prosp">>, feats)

is_neuter_singular(tok) ==
    LET feats == OrEmpty(tok.feats)
    IN  feats_has(feats, S("Gender"), S("Neut")) /\ feats_has(feats, S("Number"), S("Sing"))

agrees_case_number_gender(a, b) ==
    LET ca == feats_get(OrEmpty(a.feats), S("Case"))
        cb == feats_get(OrEmpty(b.feats), S("Case"))
    IN  IF Truthy(ca) /\ Truthy(cb) /\ ca # cb THEN FALSE
        ELSE agree_gender_number(a, b)

is_gerund(toks, gi) ==
    LET g == Tok(toks, gi)
    IN  /\ is_future_passive_participle(g)
        /\ is_neuter_singular(g)
        /\ ~(/\ HasHead(toks, g)
             /\ is_nounish(Tok(toks, g.head - 1))
             /\ agrees_case_number_gender(g, Tok(toks, g.head - 1)))

is_gerundive(toks, gi) ==
    /\ is_future_passive_participle(Tok(toks, gi))
    /\ ~is_gerund(toks, gi)

ger_fires(toks, i) == is_gerund(toks, i) \/ is_gerundive(toks, i)

ger_tag(toks, i) ==
    IF is_gerund(toks, i)
    THEN [type |-> "gerund", start |-> i, end |-> i, confidence |-> 94,
          trigger |-> [index |-> i, rule |-> "FPP_neut_sing_substantive"]]
    ELSE [type |-> "gerundive", start |-> i, end |-> i, confidence |-> 92,
          trigger |-> [index |-> i, rule |-> "FPP_other"]]

tag_gerunds_and_gerundives(toks) == Collect(toks, ger_fires, ger_tag)

(***************************************************************************)
(* Purpose and result clauses, ad + gerund(ive), qui + subjunctive.        *)
(***************************************************************************)
RESULT_CORRELATIVES ==
    {"tam", "ita", "sic", "tantus", "talis", "tot", "adeo", "eo", "usque"}

PURPOSE_MARKERS == {"ut", "ne", "neve", "uti"}

is_correlative(tok) ==
    \/ Lower(tok_text(tok)) \in RESULT_CORRELATIVES
    \/ Lower(tok_lemma(tok)) \in RESULT_CORRELATIVES

\* The index of the last correlative before the marker in its segment, NoIdx
\* when there is none (the code returns (best is not None, best)).
has_result_correlative(toks, marker_i) ==
    LET seg_start == segment_bounds(toks, marker_i)[1]
        hits == {j \in seg_start..(marker_i - 1) : is_correlative(Tok(toks, j))}
    IN  IF hits = {} THEN NoIdx ELSE SetMax(hits)

ut_fires(toks, i) ==
    LET tok == Tok(toks, i)
    IN  /\ (Lower(tok_text(tok)) \in PURPOSE_MARKERS \/ Lower(tok_lemma(tok)) \in PURPOSE_MARKERS)
        /\ HasHead(toks, tok)
        /\ ~has_strong_boundary_between(toks, i, tok.head - 1)
        /\ is_finite_verb(Tok(toks, tok.head - 1))
        /\ is_subjunctive(Tok(toks, tok.head - 1))

\* A mutant of ut_tag: the 1-based head is used as the verb's index.
ut_tag_head_id(toks, i) ==
    LET tok == Tok(toks, i)
        vi  == tok.head
    IN  [type |-> "purpose_clause", subtype |-> "ut_ne",
         start |-> Min2(i, vi), end |-> Max2(i, vi),
         highlight_spans |-> << <<i, i>>, <<vi, vi>> >>,
         confidence |-> 93,
         trigger |-> [marker_index |-> i, verb_index |-> vi, rule |-> "mark+subj"]]

ut_tag(toks, i) ==
    LET tok == Tok(toks, i)
        vi  == tok.head - 1
        is_ut_like == Lower(tok_text(tok)) \in {"ut", "uti"} \/ Lower(tok_lemma(tok)) \in {"ut", "uti"}
        corr_i == has_result_correlative(toks, i)
    IN  IF is_ut_like /\ corr_i # NoIdx
        THEN [type |-> "result_clause", subtype |-> "ut_correlative_result",
              start |-> Min2(i, vi), end |-> Max2(i, vi),
              highlight_spans |-> << <<i, i>>, <<vi, vi>> >>,
              confidence |-> 93,
              trigger |-> [marker_index |-> i, verb_index |-> vi,
                           rule |-> "ut/uti+subj+correlative",
                           correlative_index |-> corr_i]]
        ELSE [type |-> "purpose_clause", subtype |-> "ut_ne",
              start |-> Min2(i, vi), end |-> Max2(i, vi),
              highlight_spans |-> << <<i, i>>, <<vi, vi>> >>,
              confidence |-> 93,
              trigger |-> [marker_index |-> i, verb_index |-> vi, rule |-> "mark+subj"]]

\* Among the candidates cands (in sentence order), the one nearest to anchor;
\* the first one wins a tie (the code keeps a candidate only on `dist < best`).
\* A mutant of Nearest: the first candidate in sentence order.
Nearest_first(cands, anchor) ==
    IF cands = <<>> THEN NoIdx ELSE cands[1]

Nearest(cands, anchor) ==
    IF cands = <<>> THEN NoIdx
    ELSE cands[CHOOSE k \in 1..Len(cands) :
                /\ \A m \in 1..Len(cands) : Abs(cands[k] - anchor) <= Abs(cands[m] - anchor)
                /\ \A m \in 1..(k - 1) : Abs(cands[m] - anchor) > Abs(cands[k] - anchor)]

\* `ad` as a case-marking adposition with a head inside the sentence.
is_ad_case(toks, i) ==
    LET tok == Tok(toks, i)
    IN  /\ tok.upos = "ADP"
        /\ (Lower(tok_text(tok)) = "ad" \/ Lower(tok_lemma(tok)) = "ad")
        /\ tok.deprel = "case"
        /\ HasHead(toks, tok)

ad_head_is_gerund(toks, i) ==
    LET hi == Tok(toks, i).head - 1
    IN  Tok(toks, hi).upos \in {"VERB", "AUX"} /\ is_gerund(toks, hi)

ad_best_g(toks, hi) ==
    Nearest(SelectSeq(ChildrenOf(toks, hi),
                LAMBDA ci : /\ is_future_passive_participle(Tok(toks, ci))
                            /\ agrees_case_number_gender(Tok(toks, ci), Tok(toks, hi))),
            hi)

ad_fires(toks, i) ==
    /\ is_ad_case(toks, i)
    /\ LET hi == Tok(toks, i).head - 1
       IN  IF ad_head_is_gerund(toks, i)
           THEN ~has_strong_boundary_between(toks, i, hi)
           ELSE /\ is_nounish(Tok(toks, hi))
                /\ ad_best_g(toks, hi) # NoIdx
                /\ ~has_strong_boundary_between(toks, i, ad_best_g(toks, hi))

ad_tag(toks, i) ==
    LET hi == Tok(toks, i).head - 1
        best_g == ad_best_g(toks, hi)
    IN  IF ad_head_is_gerund(toks, i)
        THEN [type |-> "purpose_clause", subtype |-> "ad_gerund",
              start |-> Min2(i, hi), end |-> Max2(i, hi),
              highlight_spans |-> << <<i, i>>, <<hi, hi>> >>,
              confidence |-> 92,
              trigger |-> [ad_index |-> i, gerund_index |-> hi, rule |-> "ad+gerund"]]
        ELSE [type |-> "purpose_clause", subtype |-> "ad_noun_gerundive",
              start |-> Min2(i, best_g), end |-> Max2(i, best_g),
              highlight_spans |-> << <<i, i>>, <<best_g, best_g>> >>,
              confidence |-> 90,
              trigger |-> [ad_index |-> i, noun_index |-> hi, gerundive_index |-> best_g,
                           rule |-> "ad+noun+gerundive_agree"]]

\* The head climb of the relative-clause detectors: at most RelMaxHops hops
\* from the pronoun i; vi is the last finite verb met, and the climb ends on
\* one attached as acl:relcl.
RelMaxHops == 6

RECURSIVE rel_climb(_, _, _, _, _, _)
rel_climb(toks, i, cur, seen, hops, vi) ==
    IF hops = 0 THEN vi
    ELSE LET ct == Tok(toks, cur)
         IN  IF ~(ct.head_int /\ ct.head > 0) THEN vi
             ELSE LET nxt == ct.head - 1
                  IN  IF nxt \in seen \/ ~(nxt < Len(toks)) THEN vi
                      ELSE IF has_strong_boundary_between(toks, i, nxt) THEN vi
                      ELSE IF Tok(toks, nxt).upos \in {"VERB", "AUX"} /\ is_finite_verb(Tok(toks, nxt))
                           THEN (IF Tok(toks, nxt).deprel = "acl:relcl" THEN nxt
                                 ELSE rel_climb(toks, i, nxt, seen \cup {nxt}, hops - 1, nxt))
                           ELSE rel_climb(toks, i, nxt, seen \cup {nxt}, hops - 1, vi)

rel_verb(toks, i) == rel_climb(toks, i, i, {}, RelMaxHops, NoIdx)

is_rel_pronoun(tok) ==
    /\ feats_has(OrEmpty(tok.feats), S("PronType"), S("Rel"))
    /\ tok.upos \in {"PRON", "DET"}
    /\ Lower(tok_lemma(tok)) \notin {"cum", "ut"}

qui_fires(toks, i) ==
    /\ is_rel_pronoun(Tok(toks, i))
    /\ rel_verb(toks, i) # NoIdx
    /\ is_subjunctive(Tok(toks, rel_verb(toks, i)))
    /\ ~has_strong_boundary_between(toks, i, rel_verb(toks, i))

qui_tag(toks, i) ==
    LET vi == rel_verb(toks, i)
    IN  [type |-> "subjunctive_relative_clause", subtype |-> "qui_subj",
         start |-> Min2(i, vi), end |-> Max2(i, vi),
         highlight_spans |-> << <<i, i>>, <<vi, vi>> >>,
         confidence |-> 90,
         trigger |-> [rel_pron_index |-> i, verb_index |-> vi, rule |-> "rel+subj"]]

tag_purpose_clauses(toks) ==
    Collect(toks, ut_fires, ut_tag)
    \o Collect(toks, ad_fires, ad_tag)
    \o Collect(toks, qui_fires, qui_tag)

(***************************************************************************)
(* Relative clauses.                                                       *)
(***************************************************************************)
relcl_fires(toks, i) ==
    /\ is_rel_pronoun(Tok(toks, i))
    /\ rel_verb(toks, i) # NoIdx
    /\ ~has_strong_boundary_between(toks, i, rel_verb(toks, i))
    /\ get_mood(Tok(toks, rel_verb(toks, i))) \in {S("Sub"), S("Ind")}

relcl_tag(toks, i) ==
    LET vi == rel_verb(toks, i)
        subtype == IF get_mood(Tok(toks, vi)) = S("Sub") THEN "subjunctive" ELSE "indicative"
    IN  [type |-> "relative_clause", subtype |-> subtype,
         start |-> Min2(i, vi), end |-> Max2(i, vi),
         highlight_spans |-> << <<i, i>>, <<vi, vi>> >>,
         confidence |-> (IF subtype = "indicative" THEN 91 ELSE 90),
         trigger |-> [rel_pron_index |-> i, verb_index |-> vi, rule |-> "PronType=Rel+finite"]]

tag_relative_clauses(toks) == Collect(toks, relcl_fires, relcl_tag)

(***************************************************************************)
(* Gerund / gerundive flip.                                                *)
(***************************************************************************)
flip_obj_children(toks, i) ==
    SelectSeq(ChildrenOf(toks, i), LAMBDA ci : Tok(toks, ci).deprel = "obj")

gobj_fires(toks, i) == is_gerund(toks, i) /\ flip_obj_children(toks, i) # <<>>

gobj_tag(toks, i) ==
    LET best_obj == Nearest(flip_obj_children(toks, i), i)
    IN  [type |-> "gerund_gerundive_flip", subtype |-> "gerund_form_with_object",
         start |-> Min2(i, best_obj), end |-> Max2(i, best_obj),
         highlight_spans |-> << <<i, i>>, <<best_obj, best_obj>> >>,
         confidence |-> 86,
         trigger |-> [gerund_index |-> i, obj_index |-> best_obj, rule |-> "gerund+obj"]]

\* `ad` in the flip detector: the same tests as is_ad_case, in another order.
flip_best_g_any(toks, noun_i) ==
    Nearest(SelectSeq(ChildrenOf(toks, noun_i), LAMBDA ci : is_gerundive(toks, ci)),
            noun_i)

flip_best_g(toks, noun_i) ==
    Nearest(SelectSeq(ChildrenOf(toks, noun_i),
                LAMBDA ci : /\ is_gerundive(toks, ci)
                            /\ agrees_case_number_gender(Tok(toks, ci), Tok(toks, noun_i))),
            noun_i)

flip_best_n(toks, ger_i) ==
    Nearest(SelectSeq(ChildrenOf(toks, ger_i),
                LAMBDA ci : /\ is_nounish(Tok(toks, ci))
                            /\ agrees_case_number_gender(Tok(toks, ger_i), Tok(toks, ci))),
            ger_i)

flipad_fires(toks, i) ==
    /\ is_ad_case(toks, i)
    /\ LET hi == Tok(toks, i).head - 1
       IN  IF is_nounish(Tok(toks, hi))
           THEN /\ flip_best_g(toks, hi) # NoIdx
                /\ ~has_strong_boundary_between(toks, i, flip_best_g(toks, hi))
           ELSE /\ is_gerundive(toks, hi)
                /\ ~has_strong_boundary_between(toks, i, hi)

flipad_tag(toks, i) ==
    LET hi == Tok(toks, i).head - 1
    IN  IF is_nounish(Tok(toks, hi))
        THEN LET best_g == flip_best_g(toks, hi)
             IN  [type |-> "gerund_gerundive_flip", subtype |-> "gerundive_form_ad_phrase",
                  start |-> Min2(i, Min2(hi, best_g)), end |-> Max2(i, Max2(hi, best_g)),
                  highlight_spans |-> << <<i, i>>, <<hi, hi>>, <<best_g, best_g>> >>,
                  confidence |-> 84,
                  trigger |-> [ad_index |-> i, noun_index |-> hi, gerundive_index |-> best_g,
                               rule |-> "ad+noun+gerundive"]]
        ELSE LET best_n == flip_best_n(toks, hi)
             IN  IF best_n = NoIdx
                 THEN [type |-> "gerund_gerundive_flip",
                       subtype |-> "gerundive_form_ad_phrase_no_noun",
                       start |-> Min2(i, hi), end |-> Max2(i, hi),
                       highlight_spans |-> << <<i, i>>, <<hi, hi>> >>,
                       confidence |-> 72,
                       trigger |-> [ad_index |-> i, gerundive_index |-> hi,
                                    rule |-> "ad+gerundive(no_noun)"]]
                 ELSE [type |-> "gerund_gerundive_flip",
                       subtype |-> "gerundive_form_ad_phrase",
                       start |-> Min2(i, Min2(best_n, hi)), end |-> Max2(i, Max2(best_n, hi)),
                       highlight_spans |-> << <<i, i>>, <<best_n, best_n>>, <<hi, hi>> >>,
                       confidence |-> 86,
                       trigger |-> [ad_index |-> i, noun_index |-> best_n,
                                    gerundive_index |-> hi,
                                    rule |-> "ad->gerundive + agreeing_noun"]]

tag_gerund_gerundive_flip(toks) ==
    Collect(toks, gobj_fires, gobj_tag) \o Collect(toks, flipad_fires, flipad_tag)

(***************************************************************************)
(* Predicate signatures and the conditional classifier.                    *)
(***************************************************************************)
\* str.endswith(("urus", "ura", "urum", "uros", "uras")) on the forms of the
\* model: the forms below are the ones that end so.
FutureParticipleForms == {"facturus", "futurum", "ventura"}

looks_like_future_participle_form(form) == Lower(form) \in FutureParticipleForms

\* txt.endswith("isse") on the forms of the model.
IsseForms == {"fecisse", "fuisse", "venisse"}

NoCompound == [kind |-> "None", aux_index |-> NoIdx, part_index |-> NoIdx]

NoSignature ==
    [mood |-> NoneVal, tense |-> NoneVal, aspect |-> NoneVal, verbForm |-> NoneVal,
     compound |-> NoCompound]

\* A mutant of predicate_signature: the periphrasis is not collapsed.
predicate_signature_bare(toks, vi) ==
    IF vi = NoIdx \/ ~(0 <= vi /\ vi < Len(toks)) THEN NoSignature
    ELSE [mood |-> get_mood(Tok(toks, vi)), tense |-> get_tense(Tok(toks, vi)),
          aspect |-> get_aspect(Tok(toks, vi)), verbForm |-> get_verbform(Tok(toks, vi)),
          compound |-> NoCompound]

predicate_signature(toks, vi) ==
    IF vi = NoIdx \/ ~(0 <= vi /\ vi < Len(toks)) THEN NoSignature
    ELSE
    LET tok      == Tok(toks, vi)
        mood     == get_mood(tok)
        tense    == get_tense(tok)
        aspect   == get_aspect(tok)
        verbForm == get_verbform(tok)
        part_i   == FirstWhere(ChildrenOf(toks, vi),
                        LAMBDA ci : feats_get(OrEmpty(Tok(toks, ci).feats), S("VerbForm")) = S("Part"))
        plain    == [mood |-> mood, tense |-> tense, aspect |-> aspect,
                     verbForm |-> verbForm, compound |-> NoCompound]
    IN  IF Lower(tok.lemma) \in {"sum", "esse"} /\ tok.upos \in {"AUX", "VERB"} /\ part_i # NoIdx
        THEN LET part     == Tok(toks, part_i)
                 p_voice  == feats_get(OrEmpty(part.feats), S("Voice"))
                 p_aspect == feats_get(OrEmpty(part.feats), S("Aspect"))
             IN  IF p_voice = S("Act")
                    /\ (p_aspect = S("Prosp") \/ looks_like_future_participle_form(part.text))
                 THEN [mood |-> mood, tense |-> S("Fut"), aspect |-> S("Prosp"),
                       verbForm |-> verbForm,
                       compound |-> [kind |-> "future_active_periphrastic",
                                     aux_index |-> vi, part_index |-> part_i]]
                 ELSE IF p_voice = S("Pass") /\ p_aspect = S("Perf")
                 THEN [mood |-> mood,
                       tense |-> (IF tense = S("Pres") THEN S("Past")
                                  ELSE IF tense = S("Past") THEN S("Pqp") ELSE tense),
                       aspect |-> S("Perf"),
                       verbForm |-> verbForm,
                       compound |-> [kind |-> "perfect_passive_periphrastic",
                                     aux_index |-> vi, part_index |-> part_i]]
                 ELSE plain
        ELSE plain

infer_infinitive_time(toks, children, inf_i) ==
    IF inf_i = NoIdx THEN NoneVal
    ELSE
    LET tok    == Tok(toks, inf_i)
        feats  == OrEmpty(tok.feats)
        tense  == feats_get(feats, S("Tense"))
        aspect == feats_get(feats, S("Aspect"))
        subtree == {j \in 0..(Len(toks) - 1) :
                        j # inf_i /\ in_subtree(toks, children, inf_i, j)}
        is_part(j) == feats_get(OrEmpty(Tok(toks, j).feats), S("VerbForm")) = S("Part")
        saw_future ==
            \E j \in subtree :
                \/ /\ is_part(j)
                   /\ \/ looks_like_future_participle_form(Tok(toks, j).text)
                      \/ feats_get(OrEmpty(Tok(toks, j).feats), S("Aspect")) = S("Prosp")
                \/ Lower(Tok(toks, j).text) = "fore"
        saw_past ==
            \E j \in subtree :
                /\ is_part(j)
                /\ feats_get(OrEmpty(Tok(toks, j).feats), S("Voice")) = S("Pass")
                /\ feats_get(OrEmpty(Tok(toks, j).feats), S("Aspect")) = S("Perf")
    IN  IF tense \in {S("Past"), S("Pqp")} \/ aspect = S("Perf") THEN S("Past")
        ELSE IF tense = S("Fut") \/ aspect = S("Prosp") THEN S("Fut")
        ELSE IF Lower(tok.text) = "fore" THEN S("Fut")
        ELSE IF Lower(tok.lemma) = "sum" /\ saw_future THEN S("Fut")
        ELSE IF Lower(tok.lemma) = "sum" /\ saw_past THEN S("Past")
        ELSE S("Pres")

IsIndirect(disc) == disc \in {"indirect", "indirect_primary", "indirect_secondary"}

\* The label given the protasis signature alone (no apodosis).
label_protasis_only(pm, pt, pa) ==
    IF pm = S("Sub") /\ pt = S("Pres") THEN "future_less_vivid"
    ELSE IF pm = S("Sub") /\ pt = S("Past") /\ pa = S("Imp") THEN "present_contrafactual"
    ELSE IF pm = S("Sub") /\ (pt = S("Pqp") \/ pa = S("Perf")) THEN "past_contrafactual"
    ELSE IF pm = S("Ind") /\ pt = S("Fut") THEN "future_more_vivid"
    ELSE IF pm = S("Ind") /\ pt = S("Pres") THEN "present_simple"
    ELSE IF pm = S("Ind") /\ pt = S("Past") THEN "past_simple"
    ELSE "mixed"

\* The label when the apodosis is an infinitive.
label_infinitive(disc, pm, pt, pa, inf_time) ==
    IF pm = S("Sub") /\ pt = S("Pres") THEN "future_less_vivid"
    ELSE IF pm = S("Sub") /\ pt = S("Past") /\ pa = S("Imp") THEN "present_contrafactual"
    ELSE IF pm = S("Sub") /\ (pt = S("Pqp") \/ pa = S("Perf")) THEN "past_contrafactual"
    ELSE IF ~IsIndirect(disc) THEN "mixed"
    ELSE IF pm = S("Ind") /\ pt = S("Fut") /\ inf_time = S("Fut") THEN "future_more_vivid"
    ELSE IF pm = S("Ind") /\ pt = S("Pres") /\ inf_time = S("Pres") THEN "present_simple"
    ELSE IF pm = S("Ind") /\ pt = S("Past") /\ inf_time \in {S("Past"), S("Pres")} THEN "past_simple"
    ELSE IF pm = S("Sub") THEN "future_less_vivid" ELSE "mixed"

\* The label when the apodosis is finite (or periphrastic).
label_finite(disc, pm, pt, pa, am, at, aa) ==
    LET prot_is_imperfect_subj == pm = S("Sub") /\ pt = S("Past") /\ pa = S("Imp")
        apod_is_imperfect_subj == am = S("Sub") /\ at = S("Past") /\ aa = S("Imp")
        prot_is_pluperfect_like == pm = S("Sub") /\ (pt = S("Pqp") \/ pa = S("Perf"))
        apod_is_pluperfect_like == am = S("Sub") /\ (at = S("Pqp") \/ aa = S("Perf"))
    IN  IF disc = "direct"
        THEN IF pm = S("Ind") /\ am = S("Ind")
             THEN (IF pt = S("Fut") /\ at = S("Fut") THEN "future_more_vivid"
                   ELSE IF pt = S("Pres") /\ at = S("Pres") THEN "present_simple"
                   ELSE IF pt = S("Past") /\ at = S("Past") THEN "past_simple"
                   ELSE "mixed_indicative")
             ELSE IF pm = S("Sub") /\ am = S("Sub")
             THEN (IF pt = S("Pres") /\ at = S("Pres") THEN "future_less_vivid"
                   ELSE IF prot_is_imperfect_subj /\ apod_is_imperfect_subj
                        THEN "present_contrafactual"
                   ELSE IF prot_is_pluperfect_like /\ apod_is_pluperfect_like
                        THEN "past_contrafactual"
                   ELSE "mixed_subjunctive")
             ELSE "mixed"
        ELSE IF pm = S("Sub")
        THEN (IF pt = S("Pres") /\ at = S("Pres") /\ am = S("Sub") THEN "future_less_vivid"
              ELSE IF prot_is_imperfect_subj THEN "present_contrafactual"
              ELSE IF prot_is_pluperfect_like THEN "past_contrafactual"
              ELSE "mixed_subjunctive")
        ELSE IF pm = S("Ind")
        THEN (IF pt = S("Fut") /\ at = S("Fut") /\ am = S("Ind") THEN "future_more_vivid"
              ELSE IF pt = S("Pres") /\ at = S("Pres") /\ am = S("Ind") THEN "present_simple"
              ELSE IF pt = S("Past") /\ at = S("Past") /\ am = S("Ind") THEN "past_simple"
              ELSE "mixed")
        ELSE "mixed"

\* A mutant of classify_conditional: the tenses are read off the bare tokens,
\* not off the normalized signatures.
classify_conditional_bare(toks, children, pv_i, ap_i, disc) ==
    IF pv_i = NoIdx \/ ~(0 <= pv_i /\ pv_i < Len(toks)) THEN "unknown"
    ELSE
    LET pv_sig == predicate_signature_bare(toks, pv_i)
        pm == pv_sig.mood
        pt == pv_sig.tense
        pa == pv_sig.aspect
    IN  IF ap_i = NoIdx \/ ~(0 <= ap_i /\ ap_i < Len(toks))
        THEN label_protasis_only(pm, pt, pa)
        ELSE IF is_infinitive(Tok(toks, ap_i))
        THEN label_infinitive(disc, pm, pt, pa, infer_infinitive_time(toks, children, ap_i))
        ELSE LET av_sig == predicate_signature_bare(toks, ap_i)
             IN  label_finite(disc, pm, pt, pa, av_sig.mood, av_sig.tense, av_sig.aspect)

\* disc is the "discourse" value of the discourse record ("direct" when the
\* record is missing).
classify_conditional(toks, children, pv_i, ap_i, disc) ==
    IF pv_i = NoIdx \/ ~(0 <= pv_i /\ pv_i < Len(toks)) THEN "unknown"
    ELSE
    LET pv_sig == predicate_signature(toks, pv_i)
        pm == pv_sig.mood
        pt == pv_sig.tense
        pa == pv_sig.aspect
    IN  IF ap_i = NoIdx \/ ~(0 <= ap_i /\ ap_i < Len(toks))
        THEN label_protasis_only(pm, pt, pa)
        ELSE IF is_infinitive(Tok(toks, ap_i))
        THEN label_infinitive(disc, pm, pt, pa, infer_infinitive_time(toks, children, ap_i))
        ELSE LET av_sig == predicate_signature(toks, ap_i)
             IN  label_finite(disc, pm, pt, pa, av_sig.mood, av_sig.tense, av_sig.aspect)

(***************************************************************************)
(* Conditionals: tag_conditionals and its local helpers.                   *)
(***************************************************************************)
\* `"relcl" in dep` on the relation labels of the model.
RelclDeprels == {"acl:relcl", "advcl:relcl"}

is_relative_like_verb(toks, j) ==
    \/ Tok(toks, j).deprel \in RelclDeprels
    \/ \E k \in 1..Len(ChildrenOf(toks, j)) :
            LET ct == Tok(toks, ChildrenOf(toks, j)[k])
            IN  ct.upos \in {"PRON", "DET"}
                /\ feats_has(OrEmpty(ct.feats), S("PronType"), S("Rel"))

is_comma(tok) == tok.upos = "PUNCT" /\ tok_text(tok) = ","

comma_clause_bounds(toks, center_i, seg_start, seg_end, include_trailing_comma) ==
    LET lc == {k \in seg_start..(center_i - 1) : is_comma(Tok(toks, k))}
        rc == {k \in (center_i + 1)..seg_end : is_comma(Tok(toks, k))}
        left0  == IF lc = {} THEN seg_start ELSE SetMax(lc) + 1
        right0 == IF rc = {} THEN seg_end
                  ELSE IF include_trailing_comma THEN SetMin(rc) ELSE SetMin(rc) - 1
        left  == Max2(seg_start, left0)
        right == Min2(seg_end, right0)
    IN  IF left > right THEN <<center_i, center_i>> ELSE <<left, right>>

AncMaxHops == 30

RECURSIVE anc_walk(_, _, _)
anc_walk(toks, cur, hops) ==
    IF hops = 0 THEN <<>>
    ELSE LET ct == Tok(toks, cur)
         IN  IF ~(ct.head_int /\ ct.head > 0) THEN <<>>
             ELSE IF ~(ct.head - 1 < Len(toks)) THEN <<>>
             ELSE <<ct.head - 1>> \o anc_walk(toks, ct.head - 1, hops - 1)

ancestors_local(toks, idx, max_hops) == anc_walk(toks, idx, max_hops)

is_governing_verb(tok) ==
    Lower(tok_lemma(tok)) \in INDIRECT_HEAD_LEMMAS /\ is_finite_verb(tok)

infer_sequence_from_head(toks, i) ==
    LET ht == get_tense(Tok(toks, i))
    IN  IF ht \in {S("Pres"), S("Fut")} THEN "primary"
        ELSE IF ht \in {S("Past"), S("Pqp")} THEN "secondary"
        ELSE "None"

mk(toks, statement, sequence, head_i, reason) ==
    [statement |-> statement,
     sequence |-> sequence,
     head_verb_index |-> head_i,
     head_verb_tense |-> (IF head_i # NoIdx THEN get_tense(Tok(toks, head_i)) ELSE NoneVal),
     discourse |-> (IF statement = "direct" THEN "direct"
                    ELSE IF sequence # "None"
                         THEN (IF sequence = "primary" THEN "indirect_primary"
                               ELSE "indirect_secondary")
                         ELSE "indirect"),
     reason |-> reason]

infer_discourse(toks, pv_i, ap_i, seg_start, seg_end) ==
    LET ancs == ancestors_local(toks, pv_i, AncMaxHops)
                \o (IF ap_i = NoIdx THEN <<>> ELSE ancestors_local(toks, ap_i, AncMaxHops))
        anc  == FirstWhere(ancs, LAMBDA a : is_governing_verb(Tok(toks, a)))
        sb   == sentence_bounds(toks, pv_i)
        head_candidates ==
            SelectSeq(Indices(toks),
                LAMBDA j : sb[1] <= j /\ j <= sb[2] /\ is_governing_verb(Tok(toks, j)))
        head_i == Nearest(head_candidates, pv_i)
        finite_in_seg == {j \in seg_start..seg_end : is_finite_verb(Tok(toks, j))}
        pt == get_tense(Tok(toks, pv_i))
    IN  IF anc # NoIdx
        THEN mk(toks, "indirect", infer_sequence_from_head(toks, anc), anc, "headverb_ancestor")
        ELSE IF head_candidates # <<>>
        THEN mk(toks, "indirect", infer_sequence_from_head(toks, head_i), head_i,
                "headverb_sentence_unit")
        ELSE IF /\ ap_i # NoIdx
                /\ is_infinitive(Tok(toks, ap_i))
                /\ (finite_in_seg = {} \/ finite_in_seg = {pv_i})
        THEN mk(toks, "indirect",
                IF pt = S("Pres") THEN "primary"
                ELSE IF pt \in {S("Past"), S("Pqp")} THEN "secondary" ELSE "None",
                NoIdx, "heuristic_infinitive_main")
        ELSE mk(toks, "direct", "None", NoIdx, "default_direct")

apodosis_score(toks, j, prefer_after_i) ==
    LET tj == Tok(toks, j)
    IN  (IF j >= prefer_after_i THEN 6 - (j - prefer_after_i)
         ELSE 0 - 2 - (prefer_after_i - j))
        + (IF tj.deprel = "root" THEN 8 ELSE 0)
        + (IF tj.upos = "VERB" THEN 2 ELSE 0)
        - (IF is_governing_verb(tj) THEN 8 ELSE 0)
        - (IF is_relative_like_verb(toks, j) THEN 50 ELSE 0)

\* The best of a candidate set: `sort(reverse=True)` on (score, j) pairs.
BestScored(toks, cands, prefer_after_i) ==
    CHOOSE j \in cands :
        \A m \in cands :
            \/ apodosis_score(toks, j, prefer_after_i) > apodosis_score(toks, m, prefer_after_i)
            \/ /\ apodosis_score(toks, j, prefer_after_i) = apodosis_score(toks, m, prefer_after_i)
               /\ j >= m

\* A mutant of pick_apodosis: the best score wins, before or after.
pick_apodosis_mixed(toks, pv_i, protasis_nodes, blocked_nodes, prefer_after_i, forbidden) ==
    LET seg == segment_bounds(toks, pv_i)
        cands == {j \in seg[1]..seg[2] :
                    /\ j \notin protasis_nodes
                    /\ j \notin blocked_nodes
                    /\ j \notin forbidden
                    /\ Tok(toks, j).upos \in {"VERB", "AUX"}
                    /\ (is_finite_verb(Tok(toks, j)) \/ is_infinitive(Tok(toks, j)))}
    IN  IF cands # {} THEN BestScored(toks, cands, prefer_after_i) ELSE NoIdx

pick_apodosis(toks, pv_i, protasis_nodes, blocked_nodes, prefer_after_i, forbidden) ==
    LET seg == segment_bounds(toks, pv_i)
        is_candidate(tok) ==
            tok.upos \in {"VERB", "AUX"} /\ (is_finite_verb(tok) \/ is_infinitive(tok))
        cands == {j \in seg[1]..seg[2] :
                    /\ j \notin protasis_nodes
                    /\ j \notin blocked_nodes
                    /\ j \notin forbidden
                    /\ is_candidate(Tok(toks, j))}
        after  == {j \in cands : j >= prefer_after_i}
        before == {j \in cands : j < prefer_after_i}
    IN  IF after # {} THEN BestScored(toks, after, prefer_after_i)
        ELSE IF before # {} THEN BestScored(toks, before, prefer_after_i)
        ELSE NoIdx

\* Pass 1: the test of one token i, and the protasis it yields.
is_protasis_si(toks, i) ==
    LET tok == Tok(toks, i)
    IN  /\ (Lower(tok_text(tok)) = "si" \/ Lower(tok_lemma(tok)) = "si")
        /\ tok.deprel = "mark"
        /\ HasHead(toks, tok)
        /\ ~has_strong_boundary_between(toks, i, tok.head - 1)
        /\ Tok(toks, tok.head - 1).upos \in {"VERB", "AUX"}

protasis_of(toks, i) ==
    LET pv_i == Tok(toks, i).head - 1
        seg  == segment_bounds(toks, pv_i)
        b    == comma_clause_bounds(toks, pv_i, seg[1], seg[2], TRUE)
        prot_left == Min2(b[1], i)
    IN  [si_index |-> i, pv_i |-> pv_i, seg_start |-> seg[1], seg_end |-> seg[2],
         prot_right |-> b[2],
         protasis_nodes |-> prot_left..b[2]]

collect_protases(toks) ==
    LET idx == SelectSeq(Indices(toks), LAMBDA i : is_protasis_si(toks, i))
    IN  [k \in 1..Len(idx) |-> protasis_of(toks, idx[k])]

\* A mutant of seg_info: the protases of a segment block nothing.
seg_info_unblocked(protases, seg_start, seg_end) ==
    LET same == {k \in 1..Len(protases) :
                    protases[k].seg_start = seg_start /\ protases[k].seg_end = seg_end}
    IN  [blocked_nodes |-> {},
         last_protasis_end |-> SetMax({NoIdx} \cup {protases[k].prot_right : k \in same})]

\* seg_key_to_info[(seg_start, seg_end)] after pass 1.
seg_info(protases, seg_start, seg_end) ==
    LET same == {k \in 1..Len(protases) :
                    protases[k].seg_start = seg_start /\ protases[k].seg_end = seg_end}
    IN  [blocked_nodes |-> UNION {protases[k].protasis_nodes : k \in same},
         last_protasis_end |-> SetMax({NoIdx} \cup {protases[k].prot_right : k \in same})]

\* Pass 2 up to the classification: the apodosis, the discourse and the
\* label.  The values the loop body binds one after the other (blocked_nodes,
\* prefer_after_i, the first apodosis, its discourse, the alternative) are
\* the parameters of the operators below, in the order the body computes them.
resolve_with(toks, item, ap0, disc0, alt) ==
    LET redo == /\ disc0.head_verb_index # NoIdx
                /\ ap0 = disc0.head_verb_index
                /\ alt # NoIdx
        ap_i == IF redo THEN alt ELSE ap0
        disc == IF redo
                THEN infer_discourse(toks, item.pv_i, alt, item.seg_start, item.seg_end)
                ELSE disc0
    IN  [ap_i |-> ap_i, disc |-> disc,
         label |-> classify_conditional(toks, build_children(toks), item.pv_i, ap_i,
                                        disc.discourse)]

resolve_disc(toks, item, blocked_nodes, prefer_after_i, ap0, disc0) ==
    resolve_with(toks, item, ap0, disc0,
                 pick_apodosis(toks, item.pv_i, item.protasis_nodes, blocked_nodes,
                               prefer_after_i, {disc0.head_verb_index}))

resolve_from(toks, item, blocked_nodes, prefer_after_i, ap0) ==
    resolve_disc(toks, item, blocked_nodes, prefer_after_i, ap0,
                 infer_discourse(toks, item.pv_i, ap0, item.seg_start, item.seg_end))

resolve_in(toks, item, blocked_nodes, prefer_after_i) ==
    resolve_from(toks, item, blocked_nodes, prefer_after_i,
                 pick_apodosis(toks, item.pv_i, item.protasis_nodes, blocked_nodes,
                               prefer_after_i, {}))

resolve_protasis(toks, item, protases) ==
    LET info == seg_info(protases, item.seg_start, item.seg_end)
    IN  resolve_in(toks, item, info.blocked_nodes \ item.protasis_nodes,
                   Max2(item.pv_i, info.last_protasis_end))

conditional_meta(toks, item, r) ==
    LET pv_sig == predicate_signature(toks, item.pv_i)
        av_sig == IF r.ap_i # NoIdx THEN predicate_signature(toks, r.ap_i) ELSE NoSignature
        is_inf == r.ap_i # NoIdx /\ is_infinitive(Tok(toks, r.ap_i))
    IN  [label |-> r.label,
         discourse |-> r.disc.discourse,
         sequence |-> r.disc.sequence,
         statement |-> r.disc.statement,
         head_verb_index |-> r.disc.head_verb_index,
         head_verb_tense |-> r.disc.head_verb_tense,
         protasis |-> [verb_index |-> item.pv_i, mood |-> pv_sig.mood,
                       tense |-> pv_sig.tense, aspect |-> pv_sig.aspect,
                       verbForm |-> pv_sig.verbForm, compound |-> pv_sig.compound],
         apodosis |-> [verb_index |-> r.ap_i, mood |-> av_sig.mood,
                       tense |-> av_sig.tense, aspect |-> av_sig.aspect,
                       verbForm |-> av_sig.verbForm, compound |-> av_sig.compound,
                       form |-> (IF r.ap_i = NoIdx THEN "None"
                                 ELSE IF is_inf THEN "infinitive"
                                 ELSE IF is_finite_verb(Tok(toks, r.ap_i)) THEN "finite"
                                 ELSE "None"),
                       inf_time |-> (IF is_inf
                                     THEN infer_infinitive_time(toks, build_children(toks), r.ap_i)
                                     ELSE NoneVal)]]

protasis_span(item) ==
    LET nodes == item.protasis_nodes \cup {item.si_index, item.pv_i}
    IN  <<Max2(item.seg_start, SetMin(nodes)), Min2(item.seg_end, SetMax(nodes))>>

apodosis_span(toks, item, ap_i) ==
    LET b == comma_clause_bounds(toks, ap_i, item.seg_start, item.seg_end, TRUE)
        children == build_children(toks)
        ap_nodes == {j \in b[1]..b[2] : in_subtree(toks, children, ap_i, j)}
    IN  IF b[2] - b[1] < 1 /\ ap_nodes # {}
        THEN <<Max2(b[1], SetMin(ap_nodes)), Min2(b[2], SetMax(ap_nodes))>>
        ELSE b

\* A mutant of emit_conditional: the apodosis tag is never emitted.
emit_conditional_protasis_only(item, r, meta, ps, as) ==
    << [type |-> "conditional_protasis", subtype |-> meta.label,
        start |-> ps[1], end |-> ps[2],
        highlight_spans |-> << ps >>,
        confidence |-> 83,
        conditional |-> meta,
        trigger |-> [si_index |-> item.si_index, protasis_verb_index |-> item.pv_i,
                     apodosis_verb_index |-> r.ap_i, rule |-> "si+head"]] >>

\* The two tags of one protasis, given what pass 2 resolved (r), the
\* metadata and the two spans.
emit_conditional(item, r, meta, ps, as) ==
    << [type |-> "conditional_protasis", subtype |-> meta.label,
        start |-> ps[1], end |-> ps[2],
        highlight_spans |-> << ps >>,
        confidence |-> 83,
        conditional |-> meta,
        trigger |-> [si_index |-> item.si_index, protasis_verb_index |-> item.pv_i,
                     apodosis_verb_index |-> r.ap_i, rule |-> "si+head"]] >>
    \o (IF r.ap_i = NoIdx THEN <<>>
        ELSE << [type |-> "conditional_apodosis", subtype |-> meta.label,
                 start |-> as[1], end |-> as[2],
                 highlight_spans |-> << as >>,
                 confidence |-> 80,
                 conditional |-> meta,
                 trigger |-> [si_index |-> item.si_index,
                              protasis_verb_index |-> item.pv_i,
                              apodosis_verb_index |-> r.ap_i,
                              rule |-> "main-clause-bound-by-commas"]] >>)

resolved_tags(toks, item, r) ==
    emit_conditional(item, r, conditional_meta(toks, item, r), protasis_span(item),
                     apodosis_span(toks, item, r.ap_i))

protasis_tags(toks, item, protases) ==
    resolved_tags(toks, item, resolve_protasis(toks, item, protases))

RECURSIVE conditional_pass2(_, _, _)
conditional_pass2(toks, protases, k) ==
    IF k > Len(protases) THEN <<>>
    ELSE protasis_tags(toks, protases[k], protases)
         \o conditional_pass2(toks, protases, k + 1)

tag_conditionals(toks) == conditional_pass2(toks, collect_protases(toks), 1)

(***************************************************************************)
(* Deduplication.                                                          *)
(***************************************************************************)
\* A mutant of TagKey: a tag is identified by its span alone.
TagKey_span(t) == <<t.start, t.end>>

\* The identity key of a tag.  The sorted tuple of the trigger's items is
\* the trigger record itself: two records are equal exactly when their
\* items are.
TagKey(t) ==
    <<t.type,
      IF "subtype" \in DOMAIN t THEN t.subtype ELSE "None",
      IF "highlight_spans" \in DOMAIN t THEN t.highlight_spans ELSE <<>>,
      t.trigger>>

\* A mutant of dedup_from: meeting a repeat forgets its key.
RECURSIVE dedup_from_forget(_, _)
dedup_from_forget(tag_list, seen) ==
    IF tag_list = <<>> THEN <<>>
    ELSE LET t == Head(tag_list)
         IN  IF TagKey(t) \in seen
             THEN dedup_from_forget(Tail(tag_list), seen \ {TagKey(t)})
             ELSE <<t>> \o dedup_from_forget(Tail(tag_list), seen \cup {TagKey(t)})

\* The loop of dedup_tags over the tags not yet visited.
RECURSIVE dedup_from(_, _)
dedup_from(tag_list, seen) ==
    IF tag_list = <<>> THEN <<>>
    ELSE LET t == Head(tag_list)
         IN  IF TagKey(t) \in seen
             THEN dedup_from(Tail(tag_list), seen)
             ELSE <<t>> \o dedup_from(Tail(tag_list), seen \cup {TagKey(t)})

Reversed(q) == [i \in 1..Len(q) |-> q[Len(q) + 1 - i]]

\* A mutant of dedup_tags: the last tag of a key wins.
dedup_tags_last(tag_list) == Reversed(dedup_from(Reversed(tag_list), {}))

dedup_tags(tag_list) == dedup_from(tag_list, {})

(***************************************************************************)
(* The sentences of the model.  A sentence is a sequence of at most MaxLen *)
(* tokens drawn from one family of token kinds; each family holds the      *)
(* kinds one construction is made of, with every head value from 0 (root)  *)
(* to one past the sentence (out of range) for the tokens whose head the   *)
(* detectors read, and a head that is no integer.                          *)
(***************************************************************************)
MaxLen == 3

Tk(text, lemma, upos, feats, deprel) ==
    [text |-> text, lemma |-> lemma, upos |-> upos, feats |-> feats,
     head |-> 0, head_int |-> TRUE, deprel |-> deprel]

RECURSIVE JoinPairs(_)
JoinPairs(ps) ==
    IF ps = <<>> THEN <<>>
    ELSE <<ps[1][1], "=", ps[1][2]>>
         \o (IF Len(ps) > 1 THEN <<"|">> \o JoinPairs(Tail(ps)) ELSE <<>>)

\* The feature string "K1=V1|K2=V2" and the dictionary {K1: V1, K2: V2}.
FS(ps) == StrBag(JoinPairs(ps))
FD(ps) == DictBag([i \in 1..Len(ps) |-> <<S(ps[i][1]), S(ps[i][2])>>])

Heads == 0..(MaxLen + 1)

WithHeads(kind) == {[kind EXCEPT !.head = h] : h \in Heads}
NonIntHead(kind) == [kind EXCEPT !.head_int = FALSE]

Comma     == Tk(",", ",", "PUNCT", NoneBag, "punct")
Semicolon == Tk(";", ";", "PUNCT", NoneBag, "punct")
Period    == Tk(".", ".", "PUNCT", NoneBag, "punct")

SubjFin == FS(<< <<"Aspect", "Perf">>, <<"Mood", "Sub">>, <<"Tense", "Past">>, <<"VerbForm", "Fin">> >>)
IndFin  == FS(<< <<"Mood", "Ind">>, <<"Tense", "Pres">>, <<"VerbForm", "Fin">> >>)

CumKinds ==
    WithHeads(Tk("cum", "cum", "SCONJ", NoneBag, "mark"))
    \cup {NonIntHead(Tk("cum", "cum", "SCONJ", NoneBag, "mark"))}
    \cup WithHeads(Tk("Cum", "Cum", "ADP", NoneBag, "case"))
    \cup WithHeads(Tk("cum", "cum", "ADP", NoneBag, "obl"))
    \cup {Tk("venisset", "venio", "VERB", SubjFin, "advcl"),
          Tk("sit", "sum", "AUX", FS(<< <<"Mood", "Sub">>, <<"Tense", "Pres">> >>), "cop"),
          Tk("venit", "venio", "VERB", IndFin, "root"),
          Tk("ventum", "venio", "VERB", FS(<< <<"Mood", "Sub">>, <<"VerbForm", "Part">> >>), "advcl"),
          Tk("Caesar", "Caesar", "PROPN", FS(<< <<"Case", "Nom">> >>), "nsubj"),
          Comma, Semicolon}

PartAblFeats == << <<"Case", "Abl">>, <<"Gender", "Fem">>, <<"Number", "Sing">>, <<"VerbForm", "Part">> >>
NounAblFeats == << <<"Case", "Abl">>, <<"Gender", "Fem">>, <<"Number", "Sing">> >>

AblKinds ==
    {Tk("capta", "capio", "VERB", FS(PartAblFeats), "advcl"),
     Tk("capta", "capio", "VERB", FD(PartAblFeats), "advcl"),
     Tk("capta", "capio", "VERB",
        FS(<< <<"Case", "Abl">>, <<"Number", "Sing">>, <<"VerbForm", "Part">> >>), "advcl"),
     Period}
    \cup WithHeads(Tk("urbe", "urbs", "NOUN", FS(NounAblFeats), "nsubj"))
    \cup WithHeads(Tk("urbe", "urbs", "NOUN", FD(NounAblFeats), "nsubj"))
    \cup WithHeads(Tk("urbibus", "urbs", "NOUN",
            FS(<< <<"Case", "Abl">>, <<"Gender", "Fem">>, <<"Number", "Plur">> >>), "nsubj"))
    \cup WithHeads(Tk("eo", "is", "PRON",
            FS(<< <<"Case", "Abl">>, <<"Gender", "Fem">> >>), "nsubj"))

IndirectKinds ==
    {Tk("dicit", "dico", "VERB", IndFin, "root"),
     Tk("dicens", "dico", "VERB", FS(<< <<"Case", "Nom">>, <<"VerbForm", "Part">> >>), "advcl"),
     Comma, Semicolon}
    \cup WithHeads(Tk("venire", "venio", "VERB", FS(<< <<"VerbForm", "Inf">> >>), "ccomp"))
    \cup WithHeads(Tk("Caesarem", "Caesar", "PROPN", FS(<< <<"Case", "Acc">> >>), "nsubj"))
    \cup WithHeads(Tk("urbem", "urbs", "NOUN", FS(<< <<"Case", "Acc">> >>), "obl"))

SubjPres == FS(<< <<"Mood", "Sub">>, <<"Tense", "Pres">>, <<"VerbForm", "Fin">> >>)

PurposeKinds ==
    {Tk("ita", "ita", "ADV", NoneBag, "advmod"),
     Tk("veniat", "venio", "VERB", SubjPres, "advcl"),
     Tk("venit", "venio", "VERB", IndFin, "root"),
     Semicolon}
    \cup WithHeads(Tk("Ut", "ut", "SCONJ", NoneBag, "mark"))
    \cup WithHeads(Tk("ne", "ne", "SCONJ", NoneBag, "mark"))

FppFeats(gender) ==
    << <<"Aspect", "Prosp">>, <<"Case", "Acc">>, <<"Gender", gender>>, <<"Number", "Sing">>,
       <<"VerbForm", "Part">>, <<"Voice", "Pass">> >>
NounAccFeats(gender) ==
    << <<"Case", "Acc">>, <<"Gender", gender>>, <<"Number", "Sing">> >>

GerundKinds ==
    {Tk("capiendum", "capio", "VERB", FD(FppFeats("Neut")), "obl"),
     Period}
    \cup WithHeads(Tk("ad", "ad", "ADP", NoneBag, "case"))
    \cup WithHeads(Tk("capiendum", "capio", "VERB", FS(FppFeats("Neut")), "obl"))
    \cup WithHeads(Tk("capiendam", "capio", "VERB", FS(FppFeats("Fem")), "acl"))
    \cup WithHeads(Tk("oppidum", "oppidum", "NOUN", FS(NounAccFeats("Neut")), "obj"))
    \cup WithHeads(Tk("urbem", "urbs", "NOUN", FS(NounAccFeats("Fem")), "obl"))

RelativeKinds ==
    {Tk("vir", "vir", "NOUN", FS(<< <<"Case", "Nom">> >>), "nsubj"),
     Semicolon}
    \cup WithHeads(Tk("qui", "qui", "PRON", FS(<< <<"PronType", "Rel">> >>), "nsubj"))
    \cup WithHeads(Tk("veniat", "venio", "VERB", SubjPres, "acl:relcl"))
    \cup WithHeads(Tk("venit", "venio", "VERB", IndFin, "root"))

\* Conditional sentences are longer: si, the protasis verb, a comma and the
\* apodosis, possibly under a governing verb.
MaxCondLen == 4

CondHeads == 0..(MaxCondLen + 1)

ConditionalKinds ==
    {Tk("vincet", "vinco", "VERB",
        FS(<< <<"Mood", "Ind">>, <<"Tense", "Fut">>, <<"VerbForm", "Fin">> >>), "root"),
     Tk("venire", "venio", "VERB", FS(<< <<"VerbForm", "Inf">> >>), "ccomp"),
     Tk("dixit", "dico", "VERB",
        FS(<< <<"Mood", "Ind">>, <<"Tense", "Past">>, <<"VerbForm", "Fin">> >>), "root"),
     Comma, Semicolon}
    \cup {[Tk("si", "si", "SCONJ", NoneBag, "mark") EXCEPT !.head = h] : h \in CondHeads}
    \cup {[Tk("venit", "venio", "VERB", IndFin, "advcl") EXCEPT !.head = h] : h \in CondHeads}

SentencesOf(kinds, n) == UNION {[1..m -> kinds] : m \in 1..n}

Sentences ==
    SentencesOf(CumKinds, MaxLen)
    \cup SentencesOf(AblKinds, MaxLen)
    \cup SentencesOf(IndirectKinds, MaxLen)
    \cup SentencesOf(PurposeKinds, MaxLen)
    \cup SentencesOf(GerundKinds, MaxLen)
    \cup SentencesOf(RelativeKinds, MaxLen)
    \cup SentencesOf(ConditionalKinds, MaxCondLen)

(***************************************************************************)
(* The sentence driver: the detectors run in the fixed order of the loop   *)
(* body, then the list is deduplicated and stored.                         *)
(***************************************************************************)
Init ==
    /\ tokens \in Sentences
    /\ tags = <<>>
    /\ pc = "cum"
    /\ IdleFeats /\ IdleDedup /\ IdleClass /\ IdleOrder /\ IdleCall

Step(at, next, found) ==
    /\ pc = at
    /\ tags' = tags \o found
    /\ pc' = next
    /\ UNCHANGED <<tokens, featVars, dedupVars, classVars, orderVars, callVars>>

RunCum         == Step("cum", "abl_abs", tag_cum_clauses(tokens))
RunAblAbs      == Step("abl_abs", "indirect", tag_ablative_absolutes(tokens))
RunIndirect    == Step("indirect", "purpose", tag_indirect_statements(tokens))
RunPurpose     == Step("purpose", "relative", tag_purpose_clauses(tokens))
RunRelative    == Step("relative", "gerund", tag_relative_clauses(tokens))
RunGerund      == Step("gerund", "flip", tag_gerunds_and_gerundives(tokens))
RunFlip        == Step("flip", "conditional", tag_gerund_gerundive_flip(tokens))
RunConditional == Step("conditional", "dedup", tag_conditionals(tokens))

RunDedup ==
    /\ pc = "dedup"
    /\ tags' = dedup_tags(tags)
    /\ pc' = "done"
    /\ UNCHANGED <<tokens, featVars, dedupVars, classVars, orderVars, callVars>>

Next ==
    \/ RunCum
    \/ RunAblAbs
    \/ RunIndirect
    \/ RunPurpose
    \/ RunRelative
    \/ RunGerund
    \/ RunFlip
    \/ RunConditional
    \/ RunDedup

Spec == Init /\ [][Next]_vars

(***************************************************************************)
(* The tag validator of review_constructions.py: the problems it reports   *)
(* for one tag of a sentence of n tokens.                                  *)
(***************************************************************************)
validate_tag(toks, tag) ==
    LET n == Len(toks)
        hs == IF "highlight_spans" \in DOMAIN tag THEN tag.highlight_spans ELSE <<>>
    IN  (IF tag.start < 0 \/ tag.start >= n THEN {"start out of range"} ELSE {})
        \cup (IF tag.end < 0 \/ tag.end >= n THEN {"end out of range"} ELSE {})
        \cup (IF tag.start > tag.end THEN {"start > end"} ELSE {})
        \cup (IF \E k \in 1..Len(hs) :
                    hs[k][1] < 0 \/ hs[k][1] >= n \/ hs[k][2] < 0 \/ hs[k][2] >= n
              THEN {"highlight span out of range"} ELSE {})
        \cup (IF \E k \in 1..Len(hs) : hs[k][1] > hs[k][2]
              THEN {"highlight span reversed"} ELSE {})

(***************************************************************************)
(* Properties of the emitted tags.                                         *)
(***************************************************************************)
TagIdx == 1..Len(tags)
TokIdx == 0..(Len(tokens) - 1)

TagsOfType(ty) == {k \in TagIdx : tags[k].type = ty}

\* C1: every emitted tag, of every detector, has 0 <= start <= end < len(tokens)
\* (the tag validator reports no start/end problem).
C1_TagSpanInRange ==
    \A k \in TagIdx :
        /\ 0 <= tags[k].start
        /\ tags[k].start <= tags[k].end
        /\ tags[k].end < Len(tokens)
        /\ validate_tag(tokens, tags[k])
                \cap {"start out of range", "end out of range", "start > end"} = {}

\* C2: no emitted tag has a sentence-unit boundary token ('.', '?' or '!' as
\* PUNCT) at an index strictly between its start and its end.
C2_NoSentenceBoundaryInside ==
    \A k \in TagIdx :
        \A j \in (tags[k].start + 1)..(tags[k].end - 1) :
            ~(Tok(tokens, j).upos = "PUNCT" /\ Tok(tokens, j).text \in {".", "?", "!"})

\* The value stored for a feature of a token, NoneVal when none is stored.
FeatureOf(i, k) == feats_get(tokens[i + 1].feats, S(k))
Present(i, k)   == FeatureOf(i, k) \notin {NoneVal, <<>>}

IsAblParticiple(i) ==
    /\ tokens[i + 1].upos = "VERB"
    /\ FeatureOf(i, "VerbForm") = S("Part")
    /\ FeatureOf(i, "Case") = S("Abl")

\* c is a noun-ish ablative child of i that agrees with it in gender and
\* number, both being stored on both tokens.
AgreeingAblChild(i, c) ==
    /\ tokens[c + 1].head_int /\ tokens[c + 1].head = i + 1
    /\ tokens[c + 1].upos \in {"NOUN", "PROPN", "PRON"}
    /\ FeatureOf(c, "Case") = S("Abl")
    /\ Present(i, "Gender") /\ Present(c, "Gender")
    /\ Present(i, "Number") /\ Present(c, "Number")
    /\ FeatureOf(i, "Gender") = FeatureOf(c, "Gender")
    /\ FeatureOf(i, "Number") = FeatureOf(c, "Number")

\* C4: an abl_abs tag is emitted only for an ablative participle and a
\* noun-ish ablative child of it on which Gender and Number are both stored
\* and equal; there is at most one abl_abs tag per participle.
C4_AblAbsNeedsAgreement ==
    /\ \A k \in TagsOfType("abl_abs") :
            /\ tags[k].trigger.part_index \in TokIdx
            /\ tags[k].trigger.abl_noun_index \in TokIdx
            /\ IsAblParticiple(tags[k].trigger.part_index)
            /\ AgreeingAblChild(tags[k].trigger.part_index, tags[k].trigger.abl_noun_index)
    /\ \A k, m \in TagsOfType("abl_abs") :
            tags[k].trigger.part_index = tags[m].trigger.part_index => k = m

\* C4 witness: the detector has run on a participle with two ablative
\* children, one that does not agree and one that does, and tagged it.
C4_Witness ==
    /\ pc = "done"
    /\ \E k \in TagsOfType("abl_abs") :
        \E c \in TokIdx :
            /\ c # tags[k].trigger.abl_noun_index
            /\ tokens[c + 1].head_int
            /\ tokens[c + 1].head = tags[k].trigger.part_index + 1
            /\ FeatureOf(c, "Case") = S("Abl")
            /\ ~AgreeingAblChild(tags[k].trigger.part_index, c)

\* The future-passive-participle form: a VERB or AUX whose features are
\* VerbForm=Part, Voice=Pass and Aspect=Prosp.
HasFppForm(i) ==
    /\ tokens[i + 1].upos \in {"VERB", "AUX"}
    /\ FeatureOf(i, "VerbForm") = S("Part")
    /\ FeatureOf(i, "Voice") = S("Pass")
    /\ FeatureOf(i, "Aspect") = S("Prosp")

GerundTagsAt(i) ==
    {k \in TagIdx : tags[k].type \in {"gerund", "gerundive"} /\ tags[k].trigger.index = i}

\* C5: for a token of future-passive-participle form exactly one of
\* is_gerund / is_gerundive holds, for any other token neither does, and
\* tag_gerunds_and_gerundives emits one tag per such token and none else.
C5_GerundXorGerundive ==
    \A i \in TokIdx :
        /\ HasFppForm(i) => (is_gerund(tokens, i) # is_gerundive(tokens, i))
        /\ ~HasFppForm(i) => (~is_gerund(tokens, i) /\ ~is_gerundive(tokens, i))
        /\ pc \in {"flip", "conditional", "dedup", "done"} =>
                Cardinality(GerundTagsAt(i)) = (IF HasFppForm(i) THEN 1 ELSE 0)

\* No segment boundary ('.', ';', ':', '?' or '!' as PUNCT) strictly between.
NoSegmentBoundaryBetween(a, b) ==
    \A j \in TokIdx :
        (Min2(a, b) < j /\ j < Max2(a, b)) =>
            ~(tokens[j + 1].upos = "PUNCT" /\ tokens[j + 1].text \in {".", ";", ":", "?", "!"})

IsFinite(j) ==
    /\ tokens[j + 1].upos \in {"VERB", "AUX"}
    /\ FeatureOf(j, "VerbForm") \in {NoneVal, S("Fin")}

\* The cum of a cum clause: lemma cum (in any letter case), SCONJ or ADP,
\* mark or case, its head a finite subjunctive verb of the same segment.
IsCumOfClause(i) ==
    LET t == tokens[i + 1]
    IN  /\ Lower(t.lemma) = "cum"
        /\ t.upos \in {"SCONJ", "ADP"}
        /\ t.deprel \in {"mark", "case"}
        /\ t.head_int /\ 1 <= t.head /\ t.head <= Len(tokens)
        /\ IsFinite(t.head - 1)
        /\ FeatureOf(t.head - 1, "Mood") = S("Sub")
        /\ NoSegmentBoundaryBetween(i, t.head - 1)

CumTagsAt(i) == {k \in TagsOfType("cum_clause") : tags[k].trigger.cum_index = i}

\* C7: once tag_cum_clauses has run there is exactly one cum_clause tag,
\* with trigger (cum_index = i, verb_index = head - 1), for each token i
\* that is the cum of a cum clause, and no cum_clause tag for any other.
C7_OneCumTagPerCum ==
    pc # "cum" =>
        /\ \A i \in TokIdx :
            IF IsCumOfClause(i)
            THEN /\ Cardinality(CumTagsAt(i)) = 1
                 /\ \A k \in CumTagsAt(i) : tags[k].trigger.verb_index = tokens[i + 1].head - 1
            ELSE CumTagsAt(i) = {}
        /\ \A k \in TagsOfType("cum_clause") : tags[k].trigger.cum_index \in TokIdx

\* C7 witness: cum at index 0 governs the subjunctive verb at index 2, a
\* token in between, and the one tag has trigger (0, 2).
C7_Witness ==
    /\ pc = "done"
    /\ Len(tokens) = 3
    /\ IsCumOfClause(0)
    /\ \E k \in TagIdx :
        /\ tags[k].type = "cum_clause"
        /\ tags[k].trigger = [cum_index |-> 0, verb_index |-> 2]

\* C9: every highlight span [a, b] of every emitted tag has
\* 0 <= a <= b < len(tokens) (the tag validator reports no highlight problem).
C9_HighlightInRange ==
    \A k \in TagIdx :
        /\ validate_tag(tokens, tags[k])
                \cap {"highlight span out of range", "highlight span reversed"} = {}
        /\ "highlight_spans" \in DOMAIN tags[k] =>
            \A h \in 1..Len(tags[k].highlight_spans) :
                /\ 0 <= tags[k].highlight_spans[h][1]
                /\ tags[k].highlight_spans[h][1] <= tags[k].highlight_spans[h][2]
                /\ tags[k].highlight_spans[h][2] < Len(tokens)

\* C9 witness: a conditional pair has been emitted, the protasis after its
\* apodosis, each with its highlight span.
C9_Witness ==
    /\ pc = "done"
    /\ \E k, m \in TagIdx :
        /\ tags[k].type = "conditional_protasis"
        /\ tags[m].type = "conditional_apodosis"
        /\ tags[m].highlight_spans[1][2] < tags[k].highlight_spans[1][1]
        /\ tags[k].highlight_spans[1][1] < tags[k].highlight_spans[1][2]

(***************************************************************************)
(* Conditional sentences built on the pattern                              *)
(*     [governing verb] si [participle] protasis , apodosis [participle]   *)
(* or, apodosis first,                                                     *)
(*     [governing verb] apodosis [participle] , si [participle] protasis   *)
(* with the heads of a dependency parse: si, the comma and the protasis'   *)
(* participle depend on the protasis verb, the protasis verb on the        *)
(* apodosis, the apodosis on the governing verb (or is the root).  The     *)
(* features are those of the UD Latin treebanks: an infinitive carries no  *)
(* Mood.                                                                   *)
(***************************************************************************)
Fin(text, lemma, upos, fs) == Tk(text, lemma, upos, FS(fs), "advcl")

CondFinite ==
    {Fin("vincet", "vinco", "VERB",
        << <<"Mood", "Ind">>, <<"Tense", "Fut">>, <<"VerbForm", "Fin">> >>),
     Fin("vincit", "vinco", "VERB",
        << <<"Mood", "Ind">>, <<"Tense", "Pres">>, <<"VerbForm", "Fin">> >>),
     Fin("vicit", "vinco", "VERB",
        << <<"Aspect", "Perf">>, <<"Mood", "Ind">>, <<"Tense", "Past">>, <<"VerbForm", "Fin">> >>),
     Fin("vincat", "vinco", "VERB",
        << <<"Mood", "Sub">>, <<"Tense", "Pres">>, <<"VerbForm", "Fin">> >>),
     Fin("vinceret", "vinco", "VERB",
        << <<"Aspect", "Imp">>, <<"Mood", "Sub">>, <<"Tense", "Past">>, <<"VerbForm", "Fin">> >>),
     Fin("vicisset", "vinco", "VERB",
        << <<"Aspect", "Perf">>, <<"Mood", "Sub">>, <<"Tense", "Pqp">>, <<"VerbForm", "Fin">> >>),
     Fin("vicerit", "vinco", "VERB",
        << <<"Aspect", "Perf">>, <<"Mood", "Sub">>, <<"Tense", "Past">>, <<"VerbForm", "Fin">> >>),
     Fin("est", "sum", "AUX",
        << <<"Mood", "Ind">>, <<"Tense", "Pres">>, <<"VerbForm", "Fin">> >>),
     Fin("esset", "sum", "AUX",
        << <<"Aspect", "Imp">>, <<"Mood", "Sub">>, <<"Tense", "Past">>, <<"VerbForm", "Fin">> >>),
     Fin("sit", "sum", "AUX",
        << <<"Mood", "Sub">>, <<"Tense", "Pres">>, <<"VerbForm", "Fin">> >>)}

CondInfinitive ==
    {Fin("vincere", "vinco", "VERB", << <<"Tense", "Pres">>, <<"VerbForm", "Inf">> >>),
     Fin("vicisse", "vinco", "VERB",
        << <<"Aspect", "Perf">>, <<"Tense", "Past">>, <<"VerbForm", "Inf">> >>),
     Fin("esse", "sum", "AUX", << <<"VerbForm", "Inf">> >>),
     Fin("fore", "sum", "AUX", << <<"VerbForm", "Inf">> >>),
     Fin("fore", "sum", "AUX", << <<"Tense", "Fut">>, <<"VerbForm", "Inf">> >>)}

CondParticiples ==
    {Tk("victus", "vinco", "VERB",
        FS(<< <<"Aspect", "Perf">>, <<"Case", "Nom">>, <<"VerbForm", "Part">>, <<"Voice", "Pass">> >>),
        "xcomp"),
     Tk("victurus", "vinco", "VERB",
        FS(<< <<"Aspect", "Prosp">>, <<"Case", "Nom">>, <<"VerbForm", "Part">>, <<"Voice", "Act">> >>),
        "xcomp")}

CondGoverning ==
    {Tk("dixit", "dico", "VERB",
        FS(<< <<"Aspect", "Perf">>, <<"Mood", "Ind">>, <<"Tense", "Past">>, <<"VerbForm", "Fin">> >>),
        "root"),
     Tk("dicit", "dico", "VERB",
        FS(<< <<"Mood", "Ind">>, <<"Tense", "Pres">>, <<"VerbForm", "Fin">> >>), "root")}

\* At most one token out of a set, as a sequence.
Optional(kinds) == {<<>>} \cup {<<k>> : k \in kinds}

SetHead(tok, h) == [tok EXCEPT !.head = h]
SetHeads(toks, h) == [i \in 1..Len(toks) |-> SetHead(toks[i], h)]

Si == Tk("si", "si", "SCONJ", NoneBag, "mark")

\* g, pp and ap are sequences of no or one token; ids are 1-based.
CondSentence(g, pp, p, a, ap, apFirst) ==
    LET o    == Len(g)
        aTop == IF o = 1 THEN 1 ELSE 0
    IN  IF apFirst
        THEN LET aI == o + 1
                 pI == o + Len(ap) + Len(pp) + 4
             IN  SetHeads(g, 0) \o <<SetHead(a, aTop)>> \o SetHeads(ap, aI)
                 \o <<SetHead(Comma, pI), SetHead(Si, pI)>> \o SetHeads(pp, pI)
                 \o <<SetHead(p, aI)>>
        ELSE LET pI == o + 1 + Len(pp) + 1
                 aI == pI + 2
             IN  SetHeads(g, 0) \o <<SetHead(Si, pI)>> \o SetHeads(pp, pI)
                 \o <<SetHead(p, aI), SetHead(Comma, pI), SetHead(a, aTop)>>
                 \o SetHeads(ap, aI)

CondSentences ==
    {CondSentence(g, pp, p, a, ap, f) :
        g \in Optional(CondGoverning), pp \in Optional(CondParticiples),
        p \in CondFinite, a \in CondFinite \cup CondInfinitive,
        ap \in Optional(CondParticiples), f \in BOOLEAN}

InitCond ==
    /\ tokens \in CondSentences
    /\ tags = <<>>
    /\ pc = "cum"
    /\ IdleFeats /\ IdleDedup /\ IdleClass /\ IdleOrder /\ IdleCall

\* The sentence driver on the conditional sentences.
SpecCond == InitCond /\ [][Next]_vars

(***************************************************************************)
(* The deduplicator under test: Init draws a tag list, DedupOnce and       *)
(* DedupTwice apply dedup_tags to it and to its own output.                *)
(***************************************************************************)
MaxTags == 3

PoolCum == <<[Tk("cum", "cum", "SCONJ", NoneBag, "mark") EXCEPT !.head = 3],
             Tk("Caesar", "Caesar", "PROPN", FS(<< <<"Case", "Nom">> >>), "nsubj"),
             Tk("venisset", "venio", "VERB", SubjFin, "advcl")>>

PoolUt == <<Tk("ita", "ita", "ADV", NoneBag, "advmod"),
            [Tk("ut", "ut", "SCONJ", NoneBag, "mark") EXCEPT !.head = 3],
            Tk("veniat", "venio", "VERB", SubjPres, "advcl")>>

PoolSi == <<[Tk("si", "si", "SCONJ", NoneBag, "mark") EXCEPT !.head = 2],
            Tk("venit", "venio", "VERB", IndFin, "advcl")>>

\* Tags as the detectors build them: two with one key and different ends
\* (neither subtype nor highlights), three that differ in subtype or in
\* type only, and two that differ in the conditional metadata only.
TagPool ==
    {cum_tag(PoolCum, 0),
     [cum_tag(PoolCum, 0) EXCEPT !.end = 1],
     ut_tag(PoolUt, 1),
     [ut_tag(PoolUt, 1) EXCEPT !.subtype = "qui_subj"],
     [ut_tag(PoolUt, 1) EXCEPT !.type = "result_clause"],
     tag_conditionals(PoolSi)[1],
     [tag_conditionals(PoolSi)[1] EXCEPT !.conditional.label = "mixed"]}

InitDedup ==
    /\ tags \in SeqsUpTo(TagPool, MaxTags)
    /\ tokens = <<>>
    /\ pc = "dedup_once"
    /\ IdleFeats /\ IdleDedup /\ IdleClass /\ IdleOrder /\ IdleCall

DedupOnce ==
    /\ pc = "dedup_once"
    /\ once' = dedup_tags(tags)
    /\ pc' = "dedup_twice"
    /\ UNCHANGED <<tokens, tags, twice, featVars, classVars, orderVars, callVars>>

DedupTwice ==
    /\ pc = "dedup_twice"
    /\ twice' = dedup_tags(once)
    /\ pc' = "deduped"
    /\ UNCHANGED <<tokens, tags, once, featVars, classVars, orderVars, callVars>>

NextDedup == DedupOnce \/ DedupTwice

SpecDedup == InitDedup /\ [][NextDedup]_vars

(***************************************************************************)
(* The classifier under test: Init draws two sentences, each a protasis    *)
(* verb at index 0, possibly an apodosis verb at index 1 and possibly a    *)
(* participle that depends on one of the two, and one discourse value;     *)
(* ClassifyPair applies classify_conditional to both.                      *)
(***************************************************************************)
ClassProtases ==
    {p \in CondFinite : p.text \in {"vincet", "vincit", "vincat", "vicisset", "esset"}}

ClassApodoses ==
    {a \in CondFinite : a.text \in {"vincet", "vincit", "vincat", "est"}}
    \cup {a \in CondInfinitive : feats_get(a.feats, S("Tense")) # S("Fut")}

ClassSentences ==
    {<<p>> : p \in ClassProtases}
    \cup {<<p, a>> : p \in ClassProtases, a \in ClassApodoses}
    \cup {<<p, a, SetHead(c, h)>> :
            p \in ClassProtases, a \in ClassApodoses, c \in CondParticiples, h \in {1, 2}}

Discourses == {"direct", "indirect", "indirect_primary", "indirect_secondary"}

\* The apodosis index of a sentence of the classifier: 1, None when missing.
ApodosisOf(toks) == IF Len(toks) >= 2 THEN 1 ELSE NoIdx

Classify(toks, d) ==
    classify_conditional(toks, build_children(toks), 0, ApodosisOf(toks), d)

InitClassify ==
    /\ pair \in ClassSentences \X ClassSentences
    /\ discourse \in Discourses
    /\ labels = <<>>
    /\ pc = "classify"
    /\ IdleDriver /\ IdleFeats /\ IdleDedup /\ IdleOrder /\ IdleCall

ClassifyPair ==
    /\ pc = "classify"
    /\ labels' = <<Classify(pair[1], discourse), Classify(pair[2], discourse)>>
    /\ pc' = "classified"
    /\ UNCHANGED <<tokens, tags, pair, discourse, featVars, dedupVars, orderVars, callVars>>

NextClassify == ClassifyPair

SpecClassify == InitClassify /\ [][NextClassify]_vars

(***************************************************************************)
(* Properties of the classifier.                                           *)
(***************************************************************************)
\* The normalized signature of a predicate, as the claim lists it.
Normalized(sig) ==
    [mood |-> sig.mood, tense |-> sig.tense, aspect |-> sig.aspect,
     verbForm |-> sig.verbForm, kind |-> sig.compound.kind]

ProtasisSig(toks) == Normalized(predicate_signature(toks, 0))
ApodosisSig(toks) == Normalized(predicate_signature(toks, ApodosisOf(toks)))

\* C3: two sentences with identical normalized protasis signatures,
\* identical normalized apodosis signatures and the same discourse get the
\* same label from classify_conditional, infinitive apodoses included.
C3_LabelFromSignatures ==
    pc = "classified" =>
        ((/\ ProtasisSig(pair[1]) = ProtasisSig(pair[2])
          /\ ApodosisSig(pair[1]) = ApodosisSig(pair[2]))
            => labels[1] = labels[2])

CondTags == {k \in TagIdx : tags[k].type \in {"conditional_protasis", "conditional_apodosis"}}

\* The label of the table of direct discourse, "no rule" when neither both
\* predicates are indicative nor both are subjunctive.
DirectTable(p, a) ==
    LET imperfect(x)  == x.tense = S("Past") /\ x.aspect = S("Imp")
        pluperfect(x) == x.tense = S("Pqp") \/ x.aspect = S("Perf")
    IN  IF p.mood = S("Ind") /\ a.mood = S("Ind")
        THEN (IF p.tense = S("Fut") /\ a.tense = S("Fut") THEN "future_more_vivid"
              ELSE IF p.tense = S("Pres") /\ a.tense = S("Pres") THEN "present_simple"
              ELSE IF p.tense = S("Past") /\ a.tense = S("Past") THEN "past_simple"
              ELSE "mixed_indicative")
        ELSE IF p.mood = S("Sub") /\ a.mood = S("Sub")
        THEN (IF p.tense = S("Pres") /\ a.tense = S("Pres") THEN "future_less_vivid"
              ELSE IF imperfect(p) /\ imperfect(a) THEN "present_contrafactual"
              ELSE IF pluperfect(p) /\ pluperfect(a) THEN "past_contrafactual"
              ELSE "mixed_subjunctive")
        ELSE "no rule"

\* C6: in direct discourse, a conditional tag whose protasis and apodosis
\* signatures are both indicative or both subjunctive carries as subtype the
\* label of the table, and the protasis tag and the apodosis tag of one pair
\* carry the same subtype.
C6_DirectDiscourseTable ==
    /\ \A k \in CondTags :
        (/\ tags[k].conditional.discourse = "direct"
         /\ tags[k].trigger.apodosis_verb_index # NoIdx
         /\ DirectTable(tags[k].conditional.protasis, tags[k].conditional.apodosis) # "no rule")
            => /\ tags[k].subtype
                    = DirectTable(tags[k].conditional.protasis, tags[k].conditional.apodosis)
               /\ tags[k].conditional.label = tags[k].subtype
    /\ \A k, m \in CondTags :
        tags[k].trigger.si_index = tags[m].trigger.si_index
            => tags[k].subtype = tags[m].subtype

\* C6 witness: "si vicisset , vicisset", both verbs pluperfect subjunctive,
\* direct discourse: a protasis tag and an apodosis tag, both labelled
\* past_contrafactual.
C6_Witness ==
    /\ pc = "done"
    /\ Len(tokens) = 4
    /\ tokens[2].text = "vicisset" /\ tokens[4].text = "vicisset"
    /\ \E k, m \in CondTags :
        /\ tags[k].type = "conditional_protasis"
        /\ tags[m].type = "conditional_apodosis"
        /\ tags[k].conditional.discourse = "direct"
        /\ tags[k].trigger.protasis_verb_index = 1
        /\ tags[k].trigger.apodosis_verb_index = 3
        /\ tags[m].trigger.apodosis_verb_index = 3
        /\ tags[k].subtype = "past_contrafactual"
        /\ tags[m].subtype = "past_contrafactual"

(***************************************************************************)
(* Properties of the deduplicator.                                         *)
(***************************************************************************)
\* C8: dedup_tags(dedup_tags(L)) = dedup_tags(L), same tags in the same order.
C8_DedupIdempotent == pc = "deduped" => twice = once

\* C8 witness: the first pass dropped a tag and kept at least two.
C8_Witness ==
    /\ pc = "deduped"
    /\ Len(once) < Len(tags)
    /\ Len(once) >= 2

(***************************************************************************)
(* Properties of the feature accessor.                                     *)
(***************************************************************************)
\* The bag carries the key: a dictionary with an item under the key, or a
\* string with a "|"-delimited part that holds "=" and whose text before its
\* first "=" is the key.
Carries(b, k) ==
    \/ /\ b.rep = "dict"
       /\ \E i \in 1..Len(b.body) : b.body[i][1] = k
    \/ /\ b.rep = "str"
       /\ \E lo \in 1..Len(b.body) : \E eq \in lo..Len(b.body) :
            /\ lo = 1 \/ b.body[lo - 1] = "|"
            /\ b.body[eq] = "="
            /\ \A j \in lo..(eq - 1) : b.body[j] \notin {"=", "|"}
            /\ SubSeq(b.body, lo, eq - 1) = k

FeatValues == {NoneVal, <<>>} \cup SeqsUpTo(FeatAtoms \ {"|"}, 1)

\* C10: feats_get never raises, returns None when the bag is absent or does
\* not carry the key, and feats_has(bag, key, value) is the equality of that
\* result with value.
C10_AccessorTotal ==
    pc = "returned" =>
        /\ got # Raised
        /\ (bag.rep = "none" \/ ~Carries(bag, key)) => got = NoneVal
        /\ \A v \in FeatValues : feats_has(bag, key, v) <=> (got = v)

\* C10 witness: a string whose first part holds no "=" and a later part
\* carries the key; its value is returned.
C10_Witness ==
    /\ pc = "returned"
    /\ bag.rep = "str"
    /\ Carries(bag, key)
    /\ \E i \in 1..Len(bag.body) :
            bag.body[i] = "|" /\ \A j \in 1..i : bag.body[j] # "="
    /\ got \notin {NoneVal, Raised}

(***************************************************************************)
(* Sentences with arbitrary head values: every token of a family takes     *)
(* every head from -1 to one past the sentence (negative, zero, in range   *)
(* with self-reference and cycles, out of range) and a head that is no     *)
(* integer (the JSON number 2.0 or the string "2": head_int is FALSE and   *)
(* head holds the number it reads as).                                     *)
(***************************************************************************)
HeadValues == (0 - 1)..(MaxLen + 1)

AnyHead(kind) ==
    {[kind EXCEPT !.head = h] : h \in HeadValues}
    \cup {[kind EXCEPT !.head = 2, !.head_int = FALSE]}

AnyHeads(kinds) == UNION {AnyHead(k) : k \in kinds}

HeadMarkerKinds ==
    AnyHeads({Tk("cum", "cum", "SCONJ", NoneBag, "mark"),
              Tk("si", "si", "SCONJ", NoneBag, "mark"),
              Tk("qui", "qui", "PRON", FS(<< <<"PronType", "Rel">> >>), "nsubj"),
              Tk("venisset", "venio", "VERB", SubjFin, "advcl")})

HeadPurposeKinds ==
    AnyHeads({Tk("ut", "ut", "SCONJ", NoneBag, "mark"),
              Tk("veniat", "venio", "VERB", SubjPres, "advcl")})

HeadAblKinds ==
    AnyHeads({Tk("capta", "capio", "VERB", FS(PartAblFeats), "advcl"),
              Tk("urbe", "urbs", "NOUN", FS(NounAblFeats), "nsubj")})

HeadIndirectKinds ==
    AnyHeads({Tk("dicit", "dico", "VERB", IndFin, "root"),
              Tk("venire", "venio", "VERB", FS(<< <<"VerbForm", "Inf">> >>), "ccomp"),
              Tk("Caesarem", "Caesar", "PROPN", FS(<< <<"Case", "Acc">> >>), "nsubj")})

HeadGerundKinds ==
    AnyHeads({Tk("ad", "ad", "ADP", NoneBag, "case"),
              Tk("capiendum", "capio", "VERB", FS(FppFeats("Neut")), "obl"),
              Tk("oppidum", "oppidum", "NOUN", FS(NounAccFeats("Neut")), "obj")})

HeadSentences ==
    SentencesOf(HeadMarkerKinds, MaxLen)
    \cup SentencesOf(HeadPurposeKinds, MaxLen)
    \cup SentencesOf(HeadAblKinds, MaxLen)
    \cup SentencesOf(HeadIndirectKinds, MaxLen)
    \cup SentencesOf(HeadGerundKinds, MaxLen)

InitHeads ==
    /\ tokens \in HeadSentences
    /\ tags = <<>>
    /\ pc = "cum"
    /\ IdleFeats /\ IdleDedup /\ IdleClass /\ IdleOrder /\ IdleCall

\* The sentence driver on these sentences.
SpecHeads == InitHeads /\ [][Next]_vars

\* The head of token i is an integer that points into the sentence.
WellFormedHead(i) ==
    /\ tokens[i + 1].head_int
    /\ 1 <= tokens[i + 1].head
    /\ tokens[i + 1].head <= Len(tokens)

\* The tokens of a tag's trigger that the detector found through their own
\* head: the marker (cum, ut/ne, ad, si), the relative pronoun, and the
\* children taken from the children index.
DependentFields ==
    {"cum_index", "marker_index", "ad_index", "si_index", "rel_pron_index",
     "abl_noun_index", "inf_index"}

Dependents(tag) ==
    {tag.trigger[f] : f \in DependentFields \cap DOMAIN tag.trigger}

HeadsSkipped ==
    \A k \in TagIdx :
        \A i \in Dependents(tags[k]) : i \in TokIdx /\ WellFormedHead(i)

\* The number of calls the driver has still to make.
Remaining(p) ==
    CASE p = "cum" -> 9 [] p = "abl_abs" -> 8 [] p = "indirect" -> 7
      [] p = "purpose" -> 6 [] p = "relative" -> 5 [] p = "gerund" -> 4
      [] p = "flip" -> 3 [] p = "conditional" -> 2 [] p = "dedup" -> 1
      [] OTHER -> 0

\* The list the driver's next call returns.
Pending ==
    CASE pc = "cum"         -> tag_cum_clauses(tokens)
      [] pc = "abl_abs"     -> tag_ablative_absolutes(tokens)
      [] pc = "indirect"    -> tag_indirect_statements(tokens)
      [] pc = "purpose"     -> tag_purpose_clauses(tokens)
      [] pc = "relative"    -> tag_relative_clauses(tokens)
      [] pc = "gerund"      -> tag_gerunds_and_gerundives(tokens)
      [] pc = "flip"        -> tag_gerund_gerundive_flip(tokens)
      [] pc = "conditional" -> tag_conditionals(tokens)
      [] pc = "dedup"       -> dedup_tags(tags)
      [] OTHER              -> tags

IsTagList(l) ==
    /\ DOMAIN l = 1..Len(l)
    /\ \A k \in 1..Len(l) : {"type", "start", "end", "trigger"} \subseteq DOMAIN l[k]

\* C11: whatever the head values of the tokens (no integer, zero, negative,
\* out of range, self-referential, cyclic), the driver terminates with a tag
\* list: the call it has to make next returns a (possibly empty) list of
\* tags, every step leaves fewer calls to make, and no tag is built on a
\* candidate whose head is no integer or out of range.
C11_MalformedHeadsSkipped ==
    /\ [](HeadsSkipped /\ IsTagList(tags) /\ IsTagList(Pending))
    /\ [][Remaining(pc') < Remaining(pc)]_vars

\* C11 witness: the driver has finished a sentence that holds a cum whose
\* head is no integer, a verb whose head is out of range and a cum with a
\* proper head, and only the last one is tagged.
C11_Witness ==
    /\ pc = "done"
    /\ Len(tokens) = 3
    /\ tokens[1].lemma = "cum" /\ ~tokens[1].head_int
    /\ tokens[2].lemma = "cum" /\ WellFormedHead(1)
    /\ tokens[3].lemma = "venio" /\ ~WellFormedHead(2)
    /\ Len(tags) = 1
    /\ tags[1].trigger.cum_index = 1

(***************************************************************************)
(* The driver with its eight detector calls in any order: each detector    *)
(* runs once, in an order chosen freely, then the list is deduplicated.    *)
(* The sentences are made of at most MaxPhrases phrases, each one the      *)
(* material of a construction with the heads of its parse.                 *)
(***************************************************************************)
MaxPhrases == 2

Detectors ==
    {"cum", "abl_abs", "indirect", "purpose", "relative", "gerund", "flip", "conditional"}

\* The tokens of a phrase, moved off tokens to the right: a head inside the
\* phrase moves with it.
Shift(phrase, off) ==
    [i \in 1..Len(phrase) |->
        IF phrase[i].head > 0 THEN SetHead(phrase[i], phrase[i].head + off) ELSE phrase[i]]

Phrases ==
    {<<SetHead(Tk("qui", "qui", "PRON", FS(<< <<"PronType", "Rel">> >>), "nsubj"), 2),
       Tk("veniat", "venio", "VERB", SubjPres, "acl:relcl")>>,
     <<SetHead(Tk("ad", "ad", "ADP", NoneBag, "case"), 2),
       Tk("capiendum", "capio", "VERB", FS(FppFeats("Neut")), "obl")>>,
     <<SetHead(Tk("ad", "ad", "ADP", NoneBag, "case"), 3),
       SetHead(Tk("capiendam", "capio", "VERB", FS(FppFeats("Fem")), "acl"), 3),
       Tk("urbem", "urbs", "NOUN", FS(NounAccFeats("Fem")), "obl")>>,
     <<SetHead(Tk("cum", "cum", "SCONJ", NoneBag, "mark"), 2),
       Tk("venisset", "venio", "VERB", SubjFin, "advcl")>>,
     <<SetHead(Tk("si", "si", "SCONJ", NoneBag, "mark"), 2),
       Tk("venit", "venio", "VERB", IndFin, "root")>>,
     <<Tk("capta", "capio", "VERB", FS(PartAblFeats), "advcl"),
       SetHead(Tk("urbe", "urbs", "NOUN", FS(NounAblFeats), "nsubj"), 1)>>,
     <<SetHead(Tk("ut", "ut", "SCONJ", NoneBag, "mark"), 2),
       Tk("veniat", "venio", "VERB", SubjPres, "advcl")>>,
     <<Tk("dicit", "dico", "VERB", IndFin, "root"),
       SetHead(Tk("Caesarem", "Caesar", "PROPN", FS(<< <<"Case", "Acc">> >>), "nsubj"), 3),
       SetHead(Tk("venire", "venio", "VERB", FS(<< <<"VerbForm", "Inf">> >>), "ccomp"), 1)>>,
     <<Semicolon>>}

RECURSIVE JoinPhrases(_, _)
JoinPhrases(ps, off) ==
    IF ps = <<>> THEN <<>>
    ELSE Shift(Head(ps), off) \o JoinPhrases(Tail(ps), off + Len(Head(ps)))

PhraseSentences ==
    {JoinPhrases(ps, 0) : ps \in UNION {[1..m -> Phrases] : m \in 1..MaxPhrases}}

InitOrder ==
    /\ tokens \in PhraseSentences
    /\ tags = <<>>
    /\ ran = {}
    /\ pc = "order"
    /\ IdleFeats /\ IdleDedup /\ IdleClass /\ IdleCall

FreeStep(d, found) ==
    /\ pc = "order"
    /\ d \notin ran
    /\ tags' = tags \o found
    /\ ran' = ran \cup {d}
    /\ UNCHANGED <<tokens, pc, featVars, dedupVars, classVars, callVars>>

FreeCum         == FreeStep("cum", tag_cum_clauses(tokens))
FreeAblAbs      == FreeStep("abl_abs", tag_ablative_absolutes(tokens))
FreeIndirect    == FreeStep("indirect", tag_indirect_statements(tokens))
FreePurpose     == FreeStep("purpose", tag_purpose_clauses(tokens))
FreeRelative    == FreeStep("relative", tag_relative_clauses(tokens))
FreeGerund      == FreeStep("gerund", tag_gerunds_and_gerundives(tokens))
FreeFlip        == FreeStep("flip", tag_gerund_gerundive_flip(tokens))
FreeConditional == FreeStep("conditional", tag_conditionals(tokens))

FreeDedup ==
    /\ pc = "order"
    /\ ran = Detectors
    /\ tags' = dedup_tags(tags)
    /\ pc' = "done"
    /\ UNCHANGED <<tokens, featVars, dedupVars, classVars, orderVars, callVars>>

NextOrder ==
    \/ FreeCum
    \/ FreeAblAbs
    \/ FreeIndirect
    \/ FreePurpose
    \/ FreeRelative
    \/ FreeGerund
    \/ FreeFlip
    \/ FreeConditional
    \/ FreeDedup

SpecOrder == InitOrder /\ [][NextOrder]_vars

\* The body of the driver's loop for one sentence, in the order of the code.
tag_sentence(toks) ==
    dedup_tags(tag_cum_clauses(toks)
               \o tag_ablative_absolutes(toks)
               \o tag_indirect_statements(toks)
               \o tag_purpose_clauses(toks)
               \o tag_relative_clauses(toks)
               \o tag_gerunds_and_gerundives(toks)
               \o tag_gerund_gerundive_flip(toks)
               \o tag_conditionals(toks))

\* C12: whatever the order in which the eight detectors have run, the set of
\* tags left after deduplication is the set the driver's own order leaves.
C12_OrderIndependent ==
    pc = "done" => SeqToSet(tags) = SeqToSet(tag_sentence(tokens))

\* C12 witness: the detectors ran in another order than the driver's (the
\* list differs from the driver's list), at least three of them emitted a
\* tag, and the set of tags is the same.
C12_Witness ==
    /\ pc = "done"
    /\ ran = Detectors
    /\ tags # tag_sentence(tokens)
    /\ Cardinality({tags[k].type : k \in TagIdx}) >= 3
    /\ SeqToSet(tags) = SeqToSet(tag_sentence(tokens))

(***************************************************************************)
(* The tree walks under test: Init draws a sentence of relative pronouns   *)
(* and verbs with arbitrary heads (cycles included) and two token indices; *)
(* CallInSubtree applies in_subtree to them, CallAncestors applies         *)
(* ancestors_local to the first, CallClimb makes the head climb of the     *)
(* relative-clause detectors from the first.                               *)
(***************************************************************************)
WalkKinds ==
    AnyHeads({Tk("qui", "qui", "PRON", FS(<< <<"PronType", "Rel">> >>), "nsubj"),
              Tk("venit", "venio", "VERB", IndFin, "advcl")})

WalkSentences == SentencesOf(WalkKinds, MaxLen)

InitWalk ==
    /\ tokens \in WalkSentences
    /\ arg \in [root : 0..(MaxLen - 1), query : 0..(MaxLen - 1)]
    /\ arg.root < Len(tokens) /\ arg.query < Len(tokens)
    /\ ret = <<>>
    /\ tags = <<>>
    /\ pc = "walk"
    /\ IdleFeats /\ IdleDedup /\ IdleClass /\ IdleOrder

\* The tokens the head climb moves to from the pronoun i, in order: the
\* values `cur` takes in the loop of the relative-clause detectors.
RECURSIVE rel_visits(_, _, _, _, _)
rel_visits(toks, i, cur, seen, hops) ==
    IF hops = 0 THEN <<>>
    ELSE LET ct == Tok(toks, cur)
         IN  IF ~(ct.head_int /\ ct.head > 0) THEN <<>>
             ELSE LET nxt == ct.head - 1
                  IN  IF nxt \in seen \/ ~(nxt < Len(toks)) THEN <<>>
                      ELSE IF has_strong_boundary_between(toks, i, nxt) THEN <<>>
                      ELSE <<nxt>>
                           \o (IF /\ Tok(toks, nxt).upos \in {"VERB", "AUX"}
                                  /\ is_finite_verb(Tok(toks, nxt))
                                  /\ Tok(toks, nxt).deprel = "acl:relcl"
                               THEN <<>>
                               ELSE rel_visits(toks, i, nxt, seen \cup {nxt}, hops - 1))

CallInSubtree ==
    /\ pc = "walk"
    /\ Tok(tokens, arg.root).upos \in {"VERB", "AUX"}
    /\ ret' = in_subtree(tokens, build_children(tokens), arg.root, arg.query)
    /\ pc' = "in_subtree"
    /\ UNCHANGED <<tokens, tags, arg, featVars, dedupVars, classVars, orderVars>>

CallAncestors ==
    /\ pc = "walk"
    /\ Tok(tokens, arg.root).upos \in {"VERB", "AUX"}
    /\ ret' = ancestors_local(tokens, arg.root, AncMaxHops)
    /\ pc' = "ancestors"
    /\ UNCHANGED <<tokens, tags, arg, featVars, dedupVars, classVars, orderVars>>

CallClimb ==
    /\ pc = "walk"
    /\ is_rel_pronoun(Tok(tokens, arg.root))
    /\ ret' = rel_visits(tokens, arg.root, arg.root, {}, RelMaxHops)
    /\ pc' = "climb"
    /\ UNCHANGED <<tokens, tags, arg, featVars, dedupVars, classVars, orderVars>>

NextWalk ==
    \/ CallInSubtree
    \/ CallAncestors
    \/ CallClimb

SpecWalk == InitWalk /\ [][NextWalk]_vars

\* b is a child of a in the children index: the head of b is an integer
\* that points at a.
ChildEdge(a, b) ==
    /\ tokens[b + 1].head_int
    /\ tokens[b + 1].head = a + 1

\* The tokens reachable from the set R by at most k child edges.
RECURSIVE Descendants(_, _)
Descendants(R, k) ==
    IF k = 0 THEN R
    ELSE Descendants(R \cup {b \in TokIdx : \E a \in R : ChildEdge(a, b)}, k - 1)

Reachable(root) == Descendants({root}, Len(tokens))

\* C13: whatever the heads, cycles included, in_subtree returns, and it
\* returns true exactly when the query is reachable from the root by zero
\* or more child edges of the children index.
C13_InSubtreeIsReachability ==
    pc = "in_subtree" =>
        /\ ret \in BOOLEAN
        /\ ret = (arg.query \in Reachable(arg.root))

\* C13 witness: the root lies on a cycle of the head graph, and the query,
\* another token, is found two child edges below it.
C13_Witness ==
    /\ pc = "in_subtree"
    /\ ret = TRUE
    /\ arg.root \in Descendants({b \in TokIdx : ChildEdge(arg.root, b)}, Len(tokens))
    /\ arg.query # arg.root
    /\ ~ChildEdge(arg.root, arg.query)

NoRepeat(q) == \A a, b \in 1..Len(q) : q[a] = q[b] => a = b

\* C14: the ancestor walk of the discourse inference makes at most 30 hops
\* and the head climb of the relative-clause detectors at most 6, and
\* neither visits a token twice or comes back to the token it started from.
C14_WalksCycleSafe ==
    /\ pc = "ancestors" =>
        /\ Len(ret) <= AncMaxHops
        /\ NoRepeat(ret)
        /\ arg.root \notin SeqToSet(ret)
    /\ pc = "climb" =>
        /\ Len(ret) <= RelMaxHops
        /\ NoRepeat(ret)
        /\ arg.root \notin SeqToSet(ret)

(***************************************************************************)
(* Properties of the spans (continued).                                    *)
(***************************************************************************)
CrossingCheckedTypes ==
    {"cum_clause", "indirect_statement", "purpose_clause", "result_clause",
     "subjunctive_relative_clause", "relative_clause",
     "conditional_protasis", "conditional_apodosis"}

\* C15: no tag of a detector that performs the crossing check (cum clause,
\* indirect statement, purpose or result clause, relative clauses,
\* conditional protasis and apodosis) has a PUNCT token '.', ';', ':', '?'
\* or '!' at an index strictly between its start and its end.
C15_NoSegmentBoundaryInside ==
    \A k \in TagIdx :
        tags[k].type \in CrossingCheckedTypes =>
            \A j \in (tags[k].start + 1)..(tags[k].end - 1) :
                ~(Tok(tokens, j).upos = "PUNCT"
                  /\ Tok(tokens, j).text \in {".", ";", ":", "?", "!"})

\* C15 witness: a detector that performs the crossing check has emitted a
\* tag of more than one token that ends right before a segment boundary.
C15_Witness ==
    /\ pc = "done"
    /\ \E k \in TagIdx :
        /\ tags[k].type \in CrossingCheckedTypes
        /\ tags[k].start < tags[k].end
        /\ tags[k].end + 1 < Len(tokens)
        /\ Tok(tokens, tags[k].end + 1).upos = "PUNCT"
        /\ Tok(tokens, tags[k].end + 1).text \in {".", ";", ":", "?", "!"}

(***************************************************************************)
(* The detectors on two storages of one sentence: Init draws a sentence    *)
(* whose feature bags are strings "K1=V1|K2=V2" and stores every bag again *)
(* as the dictionary {K1: V1, K2: V2}; TagBoth runs every detector on      *)
(* both.                                                                   *)
(***************************************************************************)
\* The dictionary that holds the key=value parts of a feature string.
ToDict(b) ==
    IF b.rep # "str" THEN b
    ELSE LET parts == SelectSeq(Split(b.body, "|"),
                                LAMBDA p : \E i \in 1..Len(p) : p[i] = "=")
         IN  DictBag([i \in 1..Len(parts) |->
                        <<SplitOnce(parts[i], "=")[1], SplitOnce(parts[i], "=")[2]>>])

StoredAsDict(toks) ==
    [i \in 1..Len(toks) |-> [toks[i] EXCEPT !.feats = ToDict(toks[i].feats)]]

StoreSentences ==
    SentencesOf({k \in GerundKinds : k.feats.rep # "dict"}, MaxLen)
    \cup SentencesOf({k \in AblKinds : k.feats.rep # "dict"}, MaxLen)

InitStore ==
    /\ tokens \in StoreSentences
    /\ arg = StoredAsDict(tokens)
    /\ ret = <<>>
    /\ tags = <<>>
    /\ pc = "store"
    /\ IdleFeats /\ IdleDedup /\ IdleClass /\ IdleOrder

\* The lists the eight detectors return for a sentence, in the driver's order.
detector_lists(toks) ==
    <<tag_cum_clauses(toks),
      tag_ablative_absolutes(toks),
      tag_indirect_statements(toks),
      tag_purpose_clauses(toks),
      tag_relative_clauses(toks),
      tag_gerunds_and_gerundives(toks),
      tag_gerund_gerundive_flip(toks),
      tag_conditionals(toks)>>

TagBoth ==
    /\ pc = "store"
    /\ ret' = [string |-> detector_lists(tokens), dictionary |-> detector_lists(arg)]
    /\ pc' = "stored"
    /\ UNCHANGED <<tokens, tags, arg, featVars, dedupVars, classVars, orderVars>>

NextStore == TagBoth

SpecStore == InitStore /\ [][NextStore]_vars

\* C16: every detector returns the same tag list for a sentence whether its
\* feature bags are stored as strings or as the equivalent dictionaries.
C16_StorageIndependent ==
    pc = "stored" => ret.string = ret.dictionary


(***************************************************************************)
(* predicate_signature under test: Init draws a copula with participial    *)
(* children in every order and the index of the predicate; CallSignature   *)
(* applies predicate_signature to it.                                      *)
(***************************************************************************)
PartFeats(voice, aspect) ==
    FS(<< <<"Aspect", aspect>>, <<"Case", "Nom">>, <<"VerbForm", "Part">>, <<"Voice", voice>> >>)

SigKinds ==
    {Tk("est", "sum", "AUX", IndFin, "root"),
     Tk("erat", "sum", "AUX",
        FS(<< <<"Mood", "Ind">>, <<"Tense", "Past">>, <<"VerbForm", "Fin">> >>), "root"),
     Tk("esset", "sum", "VERB",
        FS(<< <<"Mood", "Sub">>, <<"Tense", "Imp">>, <<"VerbForm", "Fin">> >>), "root"),
     Tk("venit", "venio", "VERB", IndFin, "root")}
    \cup WithHeads(Tk("factus", "facio", "VERB", PartFeats("Pass", "Perf"), "nsubj"))
    \cup WithHeads(Tk("faciendus", "facio", "VERB", PartFeats("Pass", "Prosp"), "nsubj"))
    \cup WithHeads(Tk("facturus", "facio", "VERB", PartFeats("Act", "Prosp"), "nsubj"))
    \cup WithHeads(Tk("veniens", "venio", "VERB", PartFeats("Act", "Imp"), "nsubj"))

SigSentences == SentencesOf(SigKinds, MaxLen)

InitSig ==
    /\ tokens \in SigSentences
    /\ arg \in {[vi |-> i] : i \in 0..(Len(tokens) - 1)}
    /\ ret = <<>>
    /\ pc = "predicate"
    /\ tags = <<>>
    /\ IdleFeats /\ IdleDedup /\ IdleClass /\ IdleOrder

CallSignature ==
    /\ pc = "predicate"
    /\ ret' = predicate_signature(tokens, arg.vi)
    /\ pc' = "signature"
    /\ UNCHANGED <<tokens, tags, arg, featVars, dedupVars, classVars, orderVars>>

NextSig == CallSignature

SpecSig == InitSig /\ [][NextSig]_vars

IsCopula(tok) == Lower(tok.lemma) \in {"sum", "esse"} /\ tok.upos \in {"AUX", "VERB"}

IsParticiple(tok) == feats_get(OrEmpty(tok.feats), S("VerbForm")) = S("Part")

PerfectPassive(tok) ==
    /\ IsParticiple(tok)
    /\ feats_get(OrEmpty(tok.feats), S("Voice")) = S("Pass")
    /\ feats_get(OrEmpty(tok.feats), S("Aspect")) = S("Perf")

FutureActive(tok) ==
    /\ IsParticiple(tok)
    /\ feats_get(OrEmpty(tok.feats), S("Voice")) = S("Act")
    /\ \/ feats_get(OrEmpty(tok.feats), S("Aspect")) = S("Prosp")
       \/ looks_like_future_participle_form(tok.text)

ChildSet(toks, vi) ==
    {ChildrenOf(toks, vi)[k] : k \in 1..Len(ChildrenOf(toks, vi))}

PerfectPassiveTense(tense) ==
    IF tense = S("Pres") THEN S("Past") ELSE IF tense = S("Past") THEN S("Pqp") ELSE tense

\* C17: a copula with a perfect passive participle among its children, and
\* no future active participle among them, gets aspect Perf, the compound
\* perfect_passive_periphrastic, its own mood and its tense mapped
\* Pres -> Past, Past -> Pqp, wherever the participle stands among the
\* children.
C17_PerfectPassivePeriphrastic ==
    (/\ pc = "signature"
     /\ IsCopula(Tok(tokens, arg.vi))
     /\ \E c \in ChildSet(tokens, arg.vi) : PerfectPassive(Tok(tokens, c))
     /\ \A c \in ChildSet(tokens, arg.vi) : ~FutureActive(Tok(tokens, c)))
    => /\ ret.aspect = S("Perf")
       /\ ret.compound.kind = "perfect_passive_periphrastic"
       /\ ret.mood = get_mood(Tok(tokens, arg.vi))
       /\ ret.tense = PerfectPassiveTense(get_tense(Tok(tokens, arg.vi)))


(***************************************************************************)
(* Discourse inference under the sentence driver: a protasis `si venit`,   *)
(* possibly a comma and an apodosis after it, and governing verbs before   *)
(* and after it, next to it or behind a comma, a semicolon or a full stop. *)
(* The protasis verb and the apodosis take every head up to MaxCondLen.    *)
(***************************************************************************)
DiscGoverning ==
    CondGoverning
    \cup {Tk("inquit", "inquam", "VERB",
             FS(<< <<"Mood", "Ind">>, <<"VerbForm", "Fin">> >>), "root")}

DiscSeparators == {Comma, Semicolon, Period}

DiscBefore ==
    {<<>>} \cup {<<g>> : g \in DiscGoverning}
    \cup {<<g, s>> : g \in DiscGoverning, s \in DiscSeparators}

DiscAfter ==
    {<<>>} \cup {<<g>> : g \in DiscGoverning}
    \cup {<<s, g>> : g \in DiscGoverning, s \in DiscSeparators}

DiscApodoses ==
    {<<>>}
    \cup {<<SetHead(a, h)>> :
            a \in {Tk("vincet", "vinco", "VERB",
                      FS(<< <<"Mood", "Ind">>, <<"Tense", "Fut">>, <<"VerbForm", "Fin">> >>),
                      "root"),
                   Tk("venire", "venio", "VERB", FS(<< <<"VerbForm", "Inf">> >>), "ccomp")},
            h \in 0..MaxCondLen}

DiscSentence(before, hp, comma, apodosis, after) ==
    before
    \o <<SetHead(Si, Len(before) + 2),
         SetHead(Tk("venit", "venio", "VERB", IndFin, "advcl"), hp)>>
    \o comma \o apodosis \o after

DiscSentences ==
    {DiscSentence(b, hp, c, a, f) :
        b \in DiscBefore, hp \in 0..MaxCondLen, c \in {<<>>, <<Comma>>},
        a \in DiscApodoses, f \in DiscAfter}

InitDisc ==
    /\ tokens \in DiscSentences
    /\ tags = <<>>
    /\ pc = "cum"
    /\ IdleFeats /\ IdleDedup /\ IdleClass /\ IdleOrder /\ IdleCall

\* The sentence driver on the discourse sentences.
SpecDisc == InitDisc /\ [][Next]_vars

ConditionalTags ==
    {t \in SeqToSet(tags) : t.type \in {"conditional_protasis", "conditional_apodosis"}}

\* C18: a conditional tag that names a governing verb reports indirect
\* discourse with a sequence: primary when the tense of the governing verb
\* is present or future, secondary in every other case, so its discourse is
\* indirect_primary or indirect_secondary.
C18_GoverningVerbGivesSequence ==
    \A t \in ConditionalTags :
        t.conditional.head_verb_index # NoIdx =>
            LET ht == get_tense(Tok(tokens, t.conditional.head_verb_index))
            IN  /\ t.conditional.statement = "indirect"
                /\ t.conditional.sequence =
                       (IF ht \in {S("Pres"), S("Fut")} THEN "primary" ELSE "secondary")
                /\ t.conditional.discourse =
                       (IF ht \in {S("Pres"), S("Fut")} THEN "indirect_primary"
                        ELSE "indirect_secondary")


\* The dependency ancestors of token i: the tokens reached from i by one or
\* more head links inside the sentence.
RECURSIVE AncestorsWithin(_, _)
AncestorsWithin(R, k) ==
    IF k = 0 THEN R
    ELSE AncestorsWithin(
            R \cup {Tok(tokens, j).head - 1 :
                        j \in {m \in R : WellFormedHead(m)}}, k - 1)

AncestorSet(i) ==
    IF i = NoIdx \/ ~WellFormedHead(i) THEN {}
    ELSE AncestorsWithin({Tok(tokens, i).head - 1}, Len(tokens))

GoverningAt(j) ==
    /\ Lower(Tok(tokens, j).lemma) \in INDIRECT_HEAD_LEMMAS
    /\ Tok(tokens, j).upos \in {"VERB", "AUX"}
    /\ feats_get(OrEmpty(Tok(tokens, j).feats), S("VerbForm")) \in {NoneVal, S("Fin")}

SentenceEndAt(j) ==
    Tok(tokens, j).upos = "PUNCT" /\ Tok(tokens, j).text \in {".", "?", "!"}

\* j lies in the sentence unit of i: no '.', '?' or '!' token from one to
\* the other.
SameSentenceUnit(i, j) ==
    \A m \in Min2(i, j)..Max2(i, j) : ~SentenceEndAt(m)

\* The conditional tags whose discourse was not settled by an ancestor:
\* neither the protasis verb nor the apodosis has a governing ancestor.
ScannedTags ==
    {t \in ConditionalTags :
        \A a \in AncestorSet(t.trigger.protasis_verb_index)
                 \cup AncestorSet(t.trigger.apodosis_verb_index) : ~GoverningAt(a)}

UnitCandidates(pv) ==
    {j \in 0..(Len(tokens) - 1) : GoverningAt(j) /\ SameSentenceUnit(pv, j)}

\* C19: when no ancestor of the protasis verb or of the apodosis is a
\* governing verb, the sentence unit of the protasis verb is scanned: if it
\* holds a governing verb the discourse is indirect and the head verb is a
\* candidate nearest to the protasis verb, a ';' between them or not; a verb
\* behind a '.', '?' or '!' is never the head verb.
C19_SentenceUnitScan ==
    \A t \in ScannedTags :
        LET pv == t.trigger.protasis_verb_index
            hv == t.conditional.head_verb_index
        IN  /\ UnitCandidates(pv) # {} =>
                /\ t.conditional.statement = "indirect"
                /\ hv \in UnitCandidates(pv)
                /\ \A c \in UnitCandidates(pv) : Abs(hv - pv) <= Abs(c - pv)
            /\ hv # NoIdx => SameSentenceUnit(pv, hv)

\* A protasis whose head verb was found by the scan behind a semicolon,
\* while another governing verb stands behind a full stop and is not taken.
C19_Witness ==
    \E t \in ScannedTags :
        LET pv == t.trigger.protasis_verb_index
            hv == t.conditional.head_verb_index
        IN  /\ hv # NoIdx
            /\ \E m \in Min2(pv, hv)..Max2(pv, hv) : Tok(tokens, m).text = ";"
            /\ \E j \in 0..(Len(tokens) - 1) : GoverningAt(j) /\ ~SameSentenceUnit(pv, j)


\* C20: the governing verb never serves as the apodosis: in every
\* conditional tag that names a head verb, the apodosis verb is another
\* token.
C20_GoverningVerbNotApodosis ==
    \A t \in ConditionalTags :
        t.conditional.head_verb_index # NoIdx =>
            t.trigger.apodosis_verb_index # t.conditional.head_verb_index


(***************************************************************************)
(* Protases and apodoses under the sentence driver: free placements of     *)
(* `si` (with every head inside the sentence), verbs, commas and           *)
(* semicolons, with one or two `si` in the sentence.                       *)
(***************************************************************************)
MaxProtLen == 5

ProtKinds ==
    {SetHead(Si, h) : h \in 1..MaxProtLen}
    \cup {Tk("venit", "venio", "VERB", IndFin, "advcl"),
          Tk("vincet", "vinco", "VERB",
             FS(<< <<"Mood", "Ind">>, <<"Tense", "Fut">>, <<"VerbForm", "Fin">> >>), "root"),
          Tk("esse", "sum", "AUX", FS(<< <<"VerbForm", "Inf">> >>), "ccomp"),
          Tk("dicit", "dico", "VERB", IndFin, "advcl"),
          Comma, Semicolon}

CountSi(toks) == Cardinality({i \in 1..Len(toks) : toks[i].text = "si"})

\* Two protases `si v` and one apodosis, in each order, with nothing, a
\* comma or a semicolon between the three clauses.
ProtClause(v, at) == <<SetHead(Si, at + 2), v>>

ProtSeparators == {<<>>, <<Comma>>, <<Semicolon>>}

ProtVerbs ==
    {Tk("venit", "venio", "VERB", IndFin, "advcl"),
     Tk("dicit", "dico", "VERB", IndFin, "advcl")}

ProtApodoses ==
    {Tk("vincet", "vinco", "VERB",
        FS(<< <<"Mood", "Ind">>, <<"Tense", "Fut">>, <<"VerbForm", "Fin">> >>), "root"),
     Tk("esse", "sum", "AUX", FS(<< <<"VerbForm", "Inf">> >>), "ccomp")}

TwoProtases(v, w, a, c, d) ==
    {ProtClause(v, 0) \o c \o ProtClause(w, 2 + Len(c)) \o d \o <<a>>,
     ProtClause(v, 0) \o c \o <<a>> \o d \o ProtClause(w, 3 + Len(c) + Len(d)),
     <<a>> \o c \o ProtClause(v, 1 + Len(c)) \o d \o ProtClause(w, 3 + Len(c) + Len(d))}

\* One protasis `si v` between two other verbs, with nothing, a comma or a
\* semicolon on either side of it.
BetweenVerbs(b, v, a, c, d) ==
    <<b>> \o c \o ProtClause(v, 1 + Len(c)) \o d \o <<a>>

ProtSentences ==
    {s \in SentencesOf(ProtKinds, MaxProtLen) : CountSi(s) \in {1, 2}}
    \cup UNION {TwoProtases(v, w, a, c, d) :
                    v \in ProtVerbs, w \in ProtVerbs, a \in ProtApodoses,
                    c \in ProtSeparators, d \in ProtSeparators}
    \cup {BetweenVerbs(b, v, a, c, d) :
                b \in ProtVerbs \cup ProtApodoses, v \in ProtVerbs,
                a \in ProtVerbs \cup ProtApodoses,
                c \in ProtSeparators, d \in ProtSeparators}

InitProt ==
    /\ tokens \in ProtSentences
    /\ tags = <<>>
    /\ pc = "cum"
    /\ IdleFeats /\ IdleDedup /\ IdleClass /\ IdleOrder /\ IdleCall

\* The sentence driver on the protasis sentences.
SpecProt == InitProt /\ [][Next]_vars


\* The collected protases: a `si` in mark relation whose head is a VERB or
\* AUX of the sentence with no segment boundary between the two.
IsProtasisSi(i) ==
    LET t == tokens[i + 1]
    IN  /\ (Lower(t.text) = "si" \/ Lower(t.lemma) = "si")
        /\ t.deprel = "mark"
        /\ WellFormedHead(i)
        /\ tokens[t.head].upos \in {"VERB", "AUX"}
        /\ NoSegmentBoundaryBetween(i, t.head - 1)

ProtasisSis == {i \in TokIdx : IsProtasisSi(i)}

ProtasisVerbOf(i) == tokens[i + 1].head - 1

CommaAt(j) == tokens[j + 1].upos = "PUNCT" /\ tokens[j + 1].text = ","

\* The comma-bounded text span of the verb v: the tokens of its segment
\* from the one after the nearest comma on its left to the nearest comma on
\* its right.
CommaSpan(v) ==
    {j \in TokIdx :
        /\ NoSegmentBoundaryBetween(v, j)
        /\ ~(tokens[j + 1].upos = "PUNCT" /\ tokens[j + 1].text \in {".", ";", ":", "?", "!"})
        /\ \A m \in TokIdx : (j <= m /\ m < v) => ~CommaAt(m)
        /\ \A m \in TokIdx : (v < m /\ m < j) => ~CommaAt(m)}

InSegmentOf(v, j) ==
    /\ NoSegmentBoundaryBetween(v, j)
    /\ ~(tokens[j + 1].upos = "PUNCT" /\ tokens[j + 1].text \in {".", ";", ":", "?", "!"})

\* C21: the apodosis of a conditional tag lies in the segment of the
\* protasis verb, is a finite or infinitive VERB/AUX, and lies outside the
\* comma-bounded span of every protasis of that segment, its own and the
\* others; it is never a protasis verb of that segment.
C21_ProtasesNotConsumed ==
    \A t \in ConditionalTags :
        LET pv == t.trigger.protasis_verb_index
            ap == t.trigger.apodosis_verb_index
        IN  ap # NoIdx =>
            /\ ap \in TokIdx
            /\ InSegmentOf(pv, ap)
            /\ tokens[ap + 1].upos \in {"VERB", "AUX"}
            /\ \/ FeatureOf(ap, "VerbForm") \in {NoneVal, S("Fin")}
               \/ FeatureOf(ap, "VerbForm") = S("Inf")
            /\ \A i \in ProtasisSis :
                   InSegmentOf(pv, ProtasisVerbOf(i)) =>
                       /\ ap \notin CommaSpan(ProtasisVerbOf(i))
                       /\ ap # ProtasisVerbOf(i)

\* Two protases in one segment and an apodosis: the verb of the second
\* protasis is a candidate by form and place, and is not the apodosis.
C21_Witness ==
    \E t \in ConditionalTags :
        LET pv == t.trigger.protasis_verb_index
            ap == t.trigger.apodosis_verb_index
        IN  /\ ap # NoIdx
            /\ \E i \in ProtasisSis :
                   /\ ProtasisVerbOf(i) # pv
                   /\ InSegmentOf(pv, ProtasisVerbOf(i))
                   /\ ProtasisVerbOf(i) \notin CommaSpan(pv)


(***************************************************************************)
(* pick_apodosis under test: Init draws a sentence, one of its protases    *)
(* and the forbidden set (empty, or one governing verb); CallPick applies  *)
(* pick_apodosis with the blocked nodes and the preferred start that       *)
(* pass 2 computes for that protasis.                                      *)
(***************************************************************************)
InitPick ==
    /\ tokens \in ProtSentences
    /\ arg \in [item : 1..Len(collect_protases(tokens)),
                forbidden : {{}} \cup {{j} : j \in {m \in 0..(Len(tokens) - 1) :
                                                      is_governing_verb(Tok(tokens, m))}}]
    /\ ret = <<>>
    /\ pc = "pick"
    /\ tags = <<>>
    /\ IdleFeats /\ IdleDedup /\ IdleClass /\ IdleOrder

PickItem == collect_protases(tokens)[arg.item]

PickInfo == seg_info(collect_protases(tokens), PickItem.seg_start, PickItem.seg_end)

PickBlocked == PickInfo.blocked_nodes \ PickItem.protasis_nodes

PickPreferAfter == Max2(PickItem.pv_i, PickInfo.last_protasis_end)

CallPick ==
    /\ pc = "pick"
    /\ ret' = [ap_i |-> pick_apodosis(tokens, PickItem.pv_i, PickItem.protasis_nodes,
                                      PickBlocked, PickPreferAfter, arg.forbidden)]
    /\ pc' = "picked"
    /\ UNCHANGED <<tokens, tags, arg, featVars, dedupVars, classVars, orderVars>>

NextPick == CallPick

SpecPick == InitPick /\ [][NextPick]_vars

\* The eligible candidates of the call: finite or infinitive VERB/AUX tokens
\* of the segment outside the protasis, the blocked and the forbidden nodes.
Eligible ==
    {j \in TokIdx :
        /\ InSegmentOf(PickItem.pv_i, j)
        /\ j \notin PickItem.protasis_nodes
        /\ j \notin PickBlocked
        /\ j \notin arg.forbidden
        /\ tokens[j + 1].upos \in {"VERB", "AUX"}
        /\ FeatureOf(j, "VerbForm") \in {NoneVal, S("Fin"), S("Inf")}}

EligibleAfter  == {j \in Eligible : j >= PickPreferAfter}
EligibleBefore == {j \in Eligible : j < PickPreferAfter}

Outscores(j, m) ==
    \/ apodosis_score(tokens, j, PickPreferAfter) > apodosis_score(tokens, m, PickPreferAfter)
    \/ /\ apodosis_score(tokens, j, PickPreferAfter) = apodosis_score(tokens, m, PickPreferAfter)
       /\ j >= m

\* C22: the candidates at or after the end of the last protasis span win as
\* a group: when there is one, the apodosis is the best of them (equal
\* scores going to the larger index), whatever the scores of the candidates
\* before; a candidate before is chosen only when none is after, and no
\* apodosis only when there is no candidate at all.
C22_AfterGroupFirst ==
    pc = "picked" =>
        /\ EligibleAfter # {} =>
               /\ ret.ap_i \in EligibleAfter
               /\ \A m \in EligibleAfter : Outscores(ret.ap_i, m)
        /\ (EligibleAfter = {} /\ EligibleBefore # {}) =>
               /\ ret.ap_i \in EligibleBefore
               /\ \A m \in EligibleBefore : Outscores(ret.ap_i, m)
        /\ (ret.ap_i = NoIdx) <=> (Eligible = {})

\* An apodosis after the protasis chosen although a candidate before it has
\* a strictly higher score.
C22_Witness ==
    /\ pc = "picked"
    /\ ret.ap_i \in EligibleAfter
    /\ \E b \in EligibleBefore :
           apodosis_score(tokens, b, PickPreferAfter)
               > apodosis_score(tokens, ret.ap_i, PickPreferAfter)


\* The tense of the apodosis of a sentence of the classifier: inferred for
\* an infinitive, the tense of its signature otherwise.
ApodosisTense(toks) ==
    IF feats_get(OrEmpty(toks[2].feats), S("VerbForm")) = S("Inf")
    THEN infer_infinitive_time(toks, build_children(toks), 1)
    ELSE ApodosisSig(toks).tense

\* The label of the table of indirect discourse, "no rule" when no rule of
\* the table matches.
IndirectTable(p, at) ==
    IF p.mood = S("Sub") /\ p.tense = S("Pres") THEN "future_less_vivid"
    ELSE IF p.mood = S("Sub") /\ p.tense = S("Past") /\ p.aspect = S("Imp")
    THEN "present_contrafactual"
    ELSE IF p.mood = S("Sub") /\ (p.tense = S("Pqp") \/ p.aspect = S("Perf"))
    THEN "past_contrafactual"
    ELSE IF p.mood = S("Ind") /\ p.tense = S("Fut") /\ at = S("Fut") THEN "future_more_vivid"
    ELSE IF p.mood = S("Ind") /\ p.tense = S("Pres") /\ at = S("Pres") THEN "present_simple"
    ELSE IF p.mood = S("Ind") /\ p.tense = S("Past") /\ at = S("Past") THEN "past_simple"
    ELSE "no rule"

\* C23: in indirect discourse the label of a protasis with an apodosis is
\* the one of the table of indirect discourse: fixed by the protasis alone
\* when it is subjunctive, by the protasis and the agreeing apodosis tense
\* when it is indicative, and mixed or mixed_subjunctive exactly when no
\* rule matches.
C23_IndirectByProtasis ==
    (pc = "classified" /\ discourse # "direct" /\ Len(pair[1]) >= 2) =>
        LET rule == IndirectTable(ProtasisSig(pair[1]), ApodosisTense(pair[1]))
        IN  IF rule = "no rule"
            THEN labels[1] \in {"mixed", "mixed_subjunctive"}
            ELSE labels[1] = rule


ProtasisTagsOf(i) ==
    {k \in TagIdx : tags[k].type = "conditional_protasis" /\ tags[k].trigger.si_index = i}

ApodosisTagsOf(i) ==
    {k \in TagIdx : tags[k].type = "conditional_apodosis" /\ tags[k].trigger.si_index = i}

\* The label of a protasis without apodosis, from its signature alone.
ProtasisOnlyTable(p) ==
    IF p.mood = S("Sub") /\ p.tense = S("Pres") THEN "future_less_vivid"
    ELSE IF p.mood = S("Sub") /\ p.tense = S("Past") /\ p.aspect = S("Imp")
    THEN "present_contrafactual"
    ELSE IF p.mood = S("Sub") /\ (p.tense = S("Pqp") \/ p.aspect = S("Perf"))
    THEN "past_contrafactual"
    ELSE IF p.mood = S("Ind") /\ p.tense = S("Fut") THEN "future_more_vivid"
    ELSE IF p.mood = S("Ind") /\ p.tense = S("Pres") THEN "present_simple"
    ELSE IF p.mood = S("Ind") /\ p.tense = S("Past") THEN "past_simple"
    ELSE "mixed"

SameTriggerIndices(a, b) ==
    /\ a.trigger.si_index = b.trigger.si_index
    /\ a.trigger.protasis_verb_index = b.trigger.protasis_verb_index
    /\ a.trigger.apodosis_verb_index = b.trigger.apodosis_verb_index

\* C24: once the conditional detector has run, each collected protasis has
\* exactly one conditional_protasis tag, and exactly one conditional_apodosis
\* tag if and only if an apodosis was selected; without apodosis the label
\* is the one of the protasis signature alone; the two tags of a pair carry
\* the same subtype, the same conditional metadata and the same trigger
\* indices.
C24_OnePairPerProtasis ==
    pc \in {"dedup", "done"} =>
        \A i \in ProtasisSis :
            /\ Cardinality(ProtasisTagsOf(i)) = 1
            /\ \A k \in ProtasisTagsOf(i) :
                   /\ tags[k].trigger.protasis_verb_index = ProtasisVerbOf(i)
                   /\ tags[k].subtype = tags[k].conditional.label
                   /\ IF tags[k].trigger.apodosis_verb_index = NoIdx
                      THEN /\ ApodosisTagsOf(i) = {}
                           /\ tags[k].subtype =
                                  ProtasisOnlyTable(predicate_signature(tokens, ProtasisVerbOf(i)))
                      ELSE /\ Cardinality(ApodosisTagsOf(i)) = 1
                           /\ \A m \in ApodosisTagsOf(i) :
                                  /\ tags[m].subtype = tags[k].subtype
                                  /\ tags[m].conditional = tags[k].conditional
                                  /\ SameTriggerIndices(tags[m], tags[k])

\* A sentence with a protasis that has its pair of tags and a protasis that
\* has no apodosis.
C24_Witness ==
    /\ pc = "done"
    /\ \E i \in ProtasisSis : ApodosisTagsOf(i) # {}
    /\ \E i \in ProtasisSis : ProtasisTagsOf(i) # {} /\ ApodosisTagsOf(i) = {}


(***************************************************************************)
(* Properties of the purpose and result clauses.                           *)
(***************************************************************************)
\* A marker of a purpose or result clause: ut, ne, neve or uti by form or
\* lemma, its head a finite subjunctive verb of the same segment.
IsMarkerOfClause(i) ==
    LET t == tokens[i + 1]
    IN  /\ (Lower(t.text) \in {"ut", "ne", "neve", "uti"}
            \/ Lower(t.lemma) \in {"ut", "ne", "neve", "uti"})
        /\ WellFormedHead(i)
        /\ IsFinite(t.head - 1)
        /\ FeatureOf(t.head - 1, "Mood") = S("Sub")
        /\ NoSegmentBoundaryBetween(i, t.head - 1)

CorrelativeBefore(i) ==
    \E j \in TokIdx :
        /\ j < i
        /\ InSegmentOf(i, j)
        /\ \/ Lower(tokens[j + 1].text) \in RESULT_CORRELATIVES
           \/ Lower(tokens[j + 1].lemma) \in RESULT_CORRELATIVES

MarkerTagsOf(i) ==
    {k \in TagIdx :
        /\ tags[k].type \in {"purpose_clause", "result_clause"}
        /\ tags[k].subtype \in {"ut_ne", "ut_correlative_result"}
        /\ tags[k].trigger.marker_index = i}

\* C25: every marker ut, ne, neve or uti of a finite subjunctive verb has
\* exactly one tag, a result_clause when a correlative stands before the
\* marker in its segment and a purpose_clause otherwise, for the four
\* markers alike.
C25_ResultWhenCorrelative ==
    pc = "done" =>
        \A i \in TokIdx :
            IsMarkerOfClause(i) =>
                /\ Cardinality(MarkerTagsOf(i)) = 1
                /\ \A k \in MarkerTagsOf(i) :
                       tags[k].type = (IF CorrelativeBefore(i) THEN "result_clause"
                                       ELSE "purpose_clause")


(***************************************************************************)
(* Properties of the indirect statements.                                  *)
(***************************************************************************)
\* C26: every indirect_statement tag is triggered by a finite verb: the
\* speech verb is a finite VERB/AUX with a lemma of the speech-verb set, the
\* infinitive is a child of it, and the accusative subject is a noun-ish
\* accusative token of the infinitive's subtree with no segment boundary
\* between it and the infinitive; a participle or infinitive of a speech
\* verb triggers no tag.
C26_FiniteSpeechVerb ==
    \A k \in TagsOfType("indirect_statement") :
        LET v == tags[k].trigger.speech_verb_index
            f == tags[k].trigger.inf_index
            a == tags[k].trigger.acc_subject_index
        IN  /\ IsFinite(v)
            /\ Lower(tokens[v + 1].lemma) \in SPEECH_LEMMAS
            /\ FeatureOf(f, "VerbForm") = S("Inf")
            /\ ChildEdge(v, f)
            /\ tokens[a + 1].upos \in {"NOUN", "PROPN", "PRON"}
            /\ FeatureOf(a, "Case") = S("Acc")
            /\ a \in Reachable(f)
            /\ NoSegmentBoundaryBetween(a, f)


\* The identity key of the claim: type, subtype, highlight spans and the
\* trigger fields.
IdentityKey(t) ==
    [type |-> t.type,
     subtype |-> IF "subtype" \in DOMAIN t THEN t.subtype ELSE "None",
     highlight_spans |-> IF "highlight_spans" \in DOMAIN t THEN t.highlight_spans ELSE <<>>,
     trigger |-> t.trigger]

\* The positions of the input whose key no earlier position has.
FirstOccurrences ==
    {i \in 1..Len(tags) : \A j \in 1..(i - 1) : IdentityKey(tags[j]) # IdentityKey(tags[i])}

\* The n-th smallest element of a set of positions.
NthOf(P, n) == CHOOSE i \in P : Cardinality({j \in P : j < i}) = n - 1

\* C27: dedup_tags keeps, in the order of the input, exactly the earliest
\* tag of every key (type, subtype, highlight_spans, trigger fields): the
\* output is a subsequence of the input, holds every key of the input once,
\* and tags that differ in start, end or conditional metadata only are one
\* tag.
C27_FirstOccurrenceFilter ==
    pc \in {"dedup_twice", "deduped"} =>
        /\ Len(once) = Cardinality(FirstOccurrences)
        /\ \A n \in 1..Len(once) : once[n] = tags[NthOf(FirstOccurrences, n)]
        /\ \A n, m \in 1..Len(once) :
               n # m => IdentityKey(once[n]) # IdentityKey(once[m])
        /\ \A i \in 1..Len(tags) :
               \E n \in 1..Len(once) : IdentityKey(once[n]) = IdentityKey(tags[i])

\* A later tag that differs from an earlier one in its end or in its
\* conditional metadata only was dropped, and two tags remain.
C27_Witness ==
    /\ pc = "deduped"
    /\ Len(once) >= 2
    /\ \E i, j \in 1..Len(tags) :
           /\ i < j
           /\ IdentityKey(tags[i]) = IdentityKey(tags[j])
           /\ tags[i] # tags[j]
           /\ "conditional" \in DOMAIN tags[i]


\* C28: the governing verb of a conditional tag is never its protasis
\* verb, also when the protasis verb has a speech or command lemma or lies
\* on a head cycle.
C28_GoverningVerbNotProtasis ==
    \A t \in ConditionalTags :
        t.conditional.head_verb_index # NoIdx =>
            t.conditional.head_verb_index # t.trigger.protasis_verb_index


\* C29: the span of the conditional_protasis tag and the span of the
\* conditional_apodosis tag of one protasis share no token.
C29_PairSpansDisjoint ==
    \A i \in TokIdx :
        \A k \in ProtasisTagsOf(i) :
            \A m \in ApodosisTagsOf(i) :
                tags[k].end < tags[m].start \/ tags[m].end < tags[k].start


(***************************************************************************)
(* The two `ad` detectors side by side: `ad` + noun + gerundive in         *)
(* tag_purpose_clauses and in tag_gerund_gerundive_flip, and `ad` + gerund.*)
(***************************************************************************)
Ad == Tk("ad", "ad", "ADP", NoneBag, "case")

AdNouns == {Tk("urbem", "urbs", "NOUN", FS(NounAccFeats("Fem")), "obl"),
            Tk("oppidum", "oppidum", "NOUN", FS(NounAccFeats("Neut")), "obl")}

AdParticiples ==
    {Tk("capiendum", "capio", "VERB", FS(FppFeats("Neut")), "acl"),
     Tk("capiendum", "capio", "VERB", FD(FppFeats("Neut")), "acl"),
     Tk("capiendam", "capio", "VERB", FS(FppFeats("Fem")), "acl")}

\* `ad` + noun + participle from position at (0-based): the participle hangs
\* on the noun, which stands before or after it.
AdNounPhrases(at) ==
    {<<SetHead(Ad, at + 2), n, SetHead(g, at + 2)>> : n \in AdNouns, g \in AdParticiples}
    \cup {<<SetHead(Ad, at + 3), SetHead(g, at + 3), n>> : n \in AdNouns, g \in AdParticiples}

\* `ad` + participle from position at, next to each other or with a full stop
\* in between.
AdVerbPhrases(at) ==
    {<<SetHead(Ad, at + 2), g>> : g \in AdParticiples}
    \cup {<<SetHead(Ad, at + 3), Period, g>> : g \in AdParticiples}

AdSentences ==
    SentencesOf(GerundKinds, MaxLen)
    \cup {p \o q : p \in AdNounPhrases(0), q \in AdVerbPhrases(3)}
    \cup UNION {{p \o q : q \in AdNounPhrases(Len(p))} : p \in AdVerbPhrases(0)}

InitAd ==
    /\ tokens \in AdSentences
    /\ tags = <<>>
    /\ pc = "cum"
    /\ IdleFeats /\ IdleDedup /\ IdleClass /\ IdleOrder /\ IdleCall

\* The sentence driver on the `ad` sentences.
SpecAd == InitAd /\ [][Next]_vars

\* Token i is `ad` as a case-marking adposition whose head is in the sentence.
IsAdCase(i) ==
    /\ tokens[i + 1].upos = "ADP"
    /\ tokens[i + 1].deprel = "case"
    /\ (Lower(tokens[i + 1].text) = "ad" \/ Lower(tokens[i + 1].lemma) = "ad")
    /\ WellFormedHead(i)

AdHeadOf(i) == tokens[i + 1].head - 1

PurposeAdNounTags ==
    {k \in TagIdx : tags[k].type = "purpose_clause" /\ tags[k].subtype = "ad_noun_gerundive"}

FlipAdNounTags ==
    {k \in TagIdx : /\ tags[k].type = "gerund_gerundive_flip"
                    /\ tags[k].trigger.rule = "ad+noun+gerundive"}

AdTriple(k) ==
    <<tags[k].trigger.ad_index, tags[k].trigger.noun_index, tags[k].trigger.gerundive_index>>

AdGerundTagsOf(i) ==
    {k \in TagIdx : /\ tags[k].type = "purpose_clause"
                    /\ tags[k].subtype = "ad_gerund"
                    /\ tags[k].trigger.ad_index = i
                    /\ tags[k].trigger.gerund_index = AdHeadOf(i)}

FlipAdTagsOf(i) ==
    {k \in TagIdx : /\ tags[k].type = "gerund_gerundive_flip"
                    /\ tags[k].trigger.rule # "gerund+obj"
                    /\ tags[k].trigger.ad_index = i}

AfterFlip == pc \in {"conditional", "dedup", "done"}

AdDetectorsAgree ==
    /\ {AdTriple(k) : k \in PurposeAdNounTags} = {AdTriple(k) : k \in FlipAdNounTags}
    /\ Cardinality(PurposeAdNounTags) = Cardinality(FlipAdNounTags)

\* C30: once both detectors have run, the purpose_clause tags of subtype
\* ad_noun_gerundive and the flip tags of rule 'ad+noun+gerundive' carry the
\* same (ad_index, noun_index, gerundive_index) triples, one tag each; and an
\* `ad` whose head is a gerund never gets a flip tag and gets its
\* purpose_clause(ad_gerund) tag exactly when no segment boundary lies
\* between `ad` and the gerund.
C30_AdDetectorsAgree ==
    AfterFlip =>
        /\ AdDetectorsAgree
        /\ \A i \in TokIdx :
              (IsAdCase(i) /\ is_gerund(tokens, AdHeadOf(i))) =>
                  /\ FlipAdTagsOf(i) = {}
                  /\ Cardinality(AdGerundTagsOf(i)) =
                        (IF NoSegmentBoundaryBetween(i, AdHeadOf(i)) THEN 1 ELSE 0)

\* C30 as stated, without the segment condition: every `ad` whose head is a
\* gerund gets a purpose_clause(ad_gerund) tag and no flip tag.
C30_AdGerundAlwaysTagged ==
    AfterFlip =>
        /\ AdDetectorsAgree
        /\ \A i \in TokIdx :
              (IsAdCase(i) /\ is_gerund(tokens, AdHeadOf(i))) =>
                  /\ FlipAdTagsOf(i) = {}
                  /\ AdGerundTagsOf(i) # {}

\* Both cases in one sentence: an agreeing `ad` + noun + gerundive tagged by
\* both detectors, and an `ad` on a gerund tagged ad_gerund.
C30_Witness ==
    /\ AfterFlip
    /\ PurposeAdNounTags # {}
    /\ FlipAdNounTags # {}
    /\ \E i \in TokIdx :
          /\ IsAdCase(i)
          /\ is_gerund(tokens, AdHeadOf(i))
          /\ AdGerundTagsOf(i) # {}

=============================================================================
